---- MODULE Spec2Model ----
(***************************************************************************)
(* State-machine model of the FaaS orchestrator (src/faas/orchestrator.py) *)
(* with its two executors (src/faas/process_executor.py,                  *)
(* src/container_executor.py), the port allocator (src/faas/config.py)    *)
(* and the delete-function endpoint (src/api_gateway.py).                 *)
(*                                                                         *)
(* Every operation is a small program run by a thread; one action is one   *)
(* step of it.  Under Spec the operations are issued one at a time (each   *)
(* runs to completion before the next starts); under SpecConc the steps of *)
(* different threads interleave freely, as the worker threads, the         *)
(* autoscaler thread and the reaper thread of the program do.              *)
(***************************************************************************)
EXTENDS Integers, Sequences, FiniteSets, TLC

(* ------------------------------ bounds -------------------------------- *)
\* uuid4() calls are numbered; one provisioning attempt draws two of them.
MaxCreates == 2
\* the allocator draws from PortBase .. PortBase + NumPorts - 1
NumPorts == 2
\* the clock advances MaxTicks times, by TimeStep seconds each
MaxTicks == 1
\* invoke_function calls issued in one behaviour, by the serial driver and
\* by the concurrent one
MaxInvokes == 1
MaxInvokesConc == 3
\* the fixed fleet of the dispatch specification and the dispatches made to it
MaxFleet == 3
MaxDispatches == 6
\* system_config.warm_instance_ttl, in seconds, where it is not 0
WarmInstanceTtl == 20

(* ------------------------- program constants -------------------------- *)
PortBase == 9000
MinScaleInterval == 30
AdmissionPolls == 10
TimeStep == 30

\* time.time() when the orchestrator is constructed: long after the epoch, so
\* that a fresh LoadBalancingState (last_scale_event = 0) is past hysteresis.
StartTime == MinScaleInterval

Ports == PortBase .. (PortBase + NumPorts - 1)
FnNames == {"f", "g"}
FnOrder == <<"h", "f", "g", "z">>
Workers == {"w1", "w2"}
Scaler == "scaler"
Reaper == "reaper"
Threads == Workers \cup {Scaler, Reaper}

\* The FunctionConfig a registration request for fn carries ("z" is a
\* function that may have no instance at all, "h" one that is pre-warmed
\* with two).
ConfigOf(fn) ==
  IF fn = "f"
  THEN [execution_mode |-> "process", min_instances |-> 1, max_instances |-> 2]
  ELSE IF fn = "h"
  THEN [execution_mode |-> "process", min_instances |-> 2, max_instances |-> 2]
  ELSE IF fn = "z"
  THEN [execution_mode |-> "process", min_instances |-> 0, max_instances |-> 0]
  ELSE [execution_mode |-> "container", min_instances |-> 0, max_instances |-> 1]

NoConfig == [execution_mode |-> "none", min_instances |-> 0, max_instances |-> 0]

VARIABLES
  functions,        \* FunctionRegistry.functions: name -> FunctionConfig
  load_balancer,    \* FaaSOrchestrator.load_balancer: name -> LoadBalancingState
  all_instances,    \* keys of FaaSOrchestrator.all_instances
  heap,             \* the FunctionInstance objects, by runtime_id
  proc_instances,   \* ProcessExecutor.instances
  cont_instances,   \* ContainerExecutor.instances
  up,               \* runtime ids whose sandbox answers GET /health
  unkillable,       \* process sandboxes for which terminate()/kill() raise
  now,              \* time.time()
  uuid_calls,       \* number of uuid.uuid4() calls made so far
  running,          \* FaaSOrchestrator.running and AutoScaler.running
  th,               \* per thread: the operation it runs and its locals
  n_invokes,        \* invoke_function calls issued so far
  driver,           \* "serial" or "fixed": one operation at a time; "concurrent"
  ttl,              \* system_config.warm_instance_ttl, in seconds
  stopped,          \* FaaSOrchestrator.stop() has been called
  function_code,    \* FunctionRegistry.function_code: name -> the code stored
  \* What the executors' sandboxes occupy on the host, by the executor's
  \* runtime id; followed in the specification of the executors.
  faas_cgroup,      \* ProcessResourceManager.faas_cgroup is not None
  cgroups,          \* the per-instance cgroup directories that exist
  temp_dirs,        \* the temporary directories that exist
  alive,            \* the child processes and containers that exist
  \* The environment of the orchestrator's own process and of the sandbox
  \* started from it, for each of two hosts.
  os_environ,       \* os.environ
  sandbox_env,      \* the `env` given to subprocess.Popen, and its runtime_config
  \* The gateway's rate limiter.
  clients,          \* RateLimiter.clients: client_id -> requests, window_start
  allowed           \* not in the program: the times of the calls is_allowed granted

vars == <<functions, load_balancer, all_instances, heap, proc_instances,
          cont_instances, up, unkillable, now, uuid_calls, running, th, n_invokes, driver, ttl, stopped,
                 function_code, faas_cgroup, cgroups, temp_dirs, alive,
                 os_environ, sandbox_env, clients, allowed>>

\* The environments and the rate limiter as they are where no sandbox
\* environment is built and no request is rate-limited.
InitOther ==
  /\ os_environ = <<>>
  /\ sandbox_env = <<>>
  /\ clients = <<>>
  /\ allowed = <<>>

(* ------------------------------ helpers ------------------------------- *)
Remove(f, k) == [x \in (DOMAIN f) \ {k} |-> f[x]]
Put(f, k, v) == [x \in (DOMAIN f) \cup {k} |-> IF x = k THEN v ELSE f[x]]
Range(s) == {s[i] : i \in DOMAIN s}

RECURSIVE SortedSeq(_)
SortedSeq(S) ==
  IF S = {} THEN <<>>
  ELSE LET m == CHOOSE x \in S : \A y \in S : x <= y
       IN <<m>> \o SortedSeq(S \ {m})

\* LoadBalancingState(); last_scale_action is not in the program: it is the
\* time at which the autoscaler last created or stopped an instance of the
\* function.
NewLoadState ==
  [instances |-> <<>>, round_robin_index |-> 0, last_scale_event |-> 0,
   last_scale_action |-> 0]

\* registry.list_functions(): the registered names, in a fixed order
ListFunctions == SelectSeq(FnOrder, LAMBDA x : x \in DOMAIN functions)

\* The port a sandbox held by an executor listens on.
SandboxPort(r) ==
  IF r \in DOMAIN proc_instances THEN proc_instances[r].port
  ELSE IF r \in DOMAIN cont_instances THEN cont_instances[r].port
  ELSE 0

\* Some sandbox answers on port p.
Listening(p) == \E r \in up : SandboxPort(r) = p

\* _is_instance_available / _is_instance_healthy: GET localhost:<port>/health
IsInstanceAvailable(r) == Listening(heap[r].port)

HealthyInstances(fn) ==
  SelectSeq(load_balancer[fn].instances, LAMBDA r : IsInstanceAvailable(r))

IdleThread ==
  [op |-> "idle", pc |-> "idle", fn |-> "none", cfg |-> NoConfig, rid |-> 0,
   code |-> 0, tmp |-> 0, todo |-> <<>>, fns |-> <<>>, filt |-> <<>>,
   ret |-> "none", polls |-> 0, count |-> 0, ok |-> FALSE, t0 |-> 0,
   t1 |-> 0, out |-> "none"]

Quiescent == \A t \in Threads : th[t].op = "idle"

\* The driver's discipline: thread t may take a step.  The serial driver
\* issues every request from one caller and lets each operation run to its
\* end before anything else happens.
Sched(t) ==
  driver # "concurrent" =>
     /\ t # "w2"
     /\ \A u \in Threads \ {t} : th[u].op = "idle"

\* Requests are served once start() has returned (api_gateway.py 152-154),
\* and still after stop(): the server goes on running.
Serving == (running \/ stopped) /\ \A t \in Threads : th[t].op # "start"

\* The environment (sandboxes, the clock) moves at any time under the
\* concurrent driver, between operations under the serial one.
EnvSched == driver # "concurrent" => Quiescent

\* invoke_function calls the driver issues.
InvokeBudget ==
  CASE driver = "serial" -> MaxInvokes
    [] driver = "concurrent" -> MaxInvokesConc
    [] OTHER -> MaxDispatches

\* A top-level operation returns `code` to its caller.
Done(rec, code) == [rec EXCEPT !.pc = "done", !.code = code]

\* Resume as it would be if every nested call reported success.
ResumeOk(rec, ok) ==
  IF rec.ret = "done"
  THEN Done(rec, 200)
  ELSE [rec EXCEPT !.pc = rec.ret, !.ok = TRUE, !.ret = "none", !.t1 = now]

\* A nested call returns to the caller's continuation; t1 is not in the
\* program: it is the time at which the call returned.
Resume(rec, ok) ==
  IF rec.ret = "done"
  THEN Done(rec, IF ok THEN 200 ELSE 404)
  ELSE [rec EXCEPT !.pc = rec.ret, !.ok = ok, !.ret = "none", !.t1 = now]

(* ----------------------------- initial state ------------------------- *)
\* The registry as loaded from the functions file, the rest as constructed.
InitOrch(names) ==
  /\ functions = [n \in names |-> ConfigOf(n)]
  /\ load_balancer = <<>>
  /\ all_instances = {}
  /\ heap = <<>>
  /\ proc_instances = <<>>
  /\ cont_instances = <<>>
  /\ up = {}
  /\ unkillable = {}
  /\ now = StartTime
  /\ uuid_calls = 0
  /\ running = FALSE
  /\ th = [t \in Threads |-> IdleThread]
  /\ n_invokes = 0
  /\ ttl = WarmInstanceTtl
  /\ stopped = FALSE
  /\ function_code = [n \in DOMAIN functions |-> 1]
  /\ faas_cgroup = FALSE
  /\ cgroups = {}
  /\ temp_dirs = {}
  /\ alive = {}

InitWith(names) == InitOrch(names) /\ InitOther

Init == InitWith(FnNames) /\ driver = "serial"

InitConc == InitWith({"g"}) /\ driver = "concurrent"

(* ------------------------------ executors ----------------------------- *)
\* ProcessExecutor.create_instance / ContainerExecutor.create_instance, the
\* successful path: the record stored under the executor's own uuid.  The
\* RUNTIME_ID handed to the sandbox is the one in runtime_config.
ExecutorRecord(fn, port, env_id) ==
  [function_name |-> fn, port |-> port, last_used |-> now, env_runtime_id |-> env_id,
   exited |-> FALSE]

\* Whether the sandbox can be started at all: `docker run -p port:8080` fails
\* when the port is taken; a child process is spawned regardless.
CanStart(mode, port) == mode = "container" => ~Listening(port)

\* executor.stop_instance(rid) can fail (return False with the record kept)
\* only in the process executor, when terminate()/kill() raises (os.kill
\* refused): whether the signals of a sandbox raise is fixed when it is
\* spawned.  The container executor swallows every error of its cleanup.
StopMayFail(mode) == mode # "container"

\* ExecutorHas as it would be if the other executor were asked.
ExecutorHasOther(mode, r) ==
  IF mode = "container" THEN r \in DOMAIN proc_instances
  ELSE r \in DOMAIN cont_instances

ExecutorHas(mode, r) ==
  IF mode = "container" THEN r \in DOMAIN cont_instances
  ELSE r \in DOMAIN proc_instances

\* CreateFailed as it would be if invoke_function did not look at the result.
CreateFailedUnnoticed(rec) ==
  IF rec.ret = "done"
  THEN Done(rec, 200)
  ELSE [rec EXCEPT !.pc = rec.ret, !.ok = FALSE, !.rid = 0, !.ret = "none"]

\* Lines 379-381 and 289-290: _create_function_instance returns None;
\* invoke_function answers 500, the other callers go on.
CreateFailed(rec) ==
  IF rec.ret = "done"
  THEN Done(rec, 500)
  ELSE [rec EXCEPT !.pc = rec.ret, !.ok = FALSE, !.rid = 0, !.ret = "none"]

(* ------------------------- _create_function_instance ------------------ *)
\* Lines 342-357 and the executor's create_instance: two uuids are drawn, a
\* port is picked at random, the sandbox is started (or the attempt raises).
CreateExec(t) ==
  /\ Sched(t)
  /\ th[t].pc = "create"
  /\ uuid_calls + 2 <= 2 * MaxCreates
  /\ uuid_calls' = uuid_calls + 2
  /\ LET rec == th[t]
         mode == rec.cfg.execution_mode
         rid == uuid_calls + 2
     IN \E port \in Ports, started \in BOOLEAN, ready \in BOOLEAN, killable \in BOOLEAN :
          /\ started => CanStart(mode, port)
          /\ ~started => (~ready /\ killable)
          /\ ~StopMayFail(mode) => killable
          /\ IF started
             THEN /\ IF mode = "container"
                     THEN /\ cont_instances' =
                               Put(cont_instances, rid, ExecutorRecord(rec.fn, port, uuid_calls + 1))
                          /\ UNCHANGED proc_instances
                     ELSE /\ proc_instances' =
                               Put(proc_instances, rid, ExecutorRecord(rec.fn, port, uuid_calls + 1))
                          /\ UNCHANGED cont_instances
                  /\ up' = IF ready /\ ~Listening(port) THEN up \cup {rid} ELSE up
                  /\ unkillable' = IF killable THEN unkillable ELSE unkillable \cup {rid}
                  /\ th' = [th EXCEPT ![t] = [rec EXCEPT !.pc = "register", !.rid = rid, !.tmp = port]]
             ELSE /\ UNCHANGED <<proc_instances, cont_instances, up, unkillable>>
                  /\ th' = [th EXCEPT ![t] = CreateFailed(rec)]
  /\ UNCHANGED <<functions, load_balancer, all_instances, heap, now, running, n_invokes, driver, os_environ, sandbox_env, clients, allowed, ttl, stopped,
                 function_code, faas_cgroup, cgroups, temp_dirs, alive>>

\* The FunctionInstance record of lines 360-367.
NewInstance(fn, mode, port) ==
  [function_name |-> fn, execution_mode |-> mode, port |-> port, last_used |-> now,
   request_count |-> 0, error_count |-> 0, calls |-> 0, errors |-> 0]

\* load_balancer after `self.load_balancer[fn].instances.append(instance)`.
AppendInstance(lb, fn, rid) ==
  LET st == IF fn \in DOMAIN lb THEN lb[fn] ELSE NewLoadState
  IN Put(lb, fn, [st EXCEPT !.instances = Append(st.instances, rid)])

\* Lines 359-377: the instance is entered in both indices.
CreateRegister(t) ==
  /\ Sched(t)
  /\ th[t].pc = "register"
  /\ LET rec == th[t]
     IN /\ heap' = Put(heap, rec.rid, NewInstance(rec.fn, rec.cfg.execution_mode, rec.tmp))
        /\ all_instances' = all_instances \cup {rec.rid}
        /\ load_balancer' = AppendInstance(load_balancer, rec.fn, rec.rid)
        /\ th' = [th EXCEPT ![t] =
                    IF rec.ret = "done" THEN [rec EXCEPT !.pc = "call", !.tmp = 0]
                    ELSE [rec EXCEPT !.pc = rec.ret, !.ok = TRUE, !.tmp = 0, !.ret = "none",
                                     !.t1 = now]]
  /\ UNCHANGED <<functions, proc_instances, cont_instances, up, unkillable, now, uuid_calls,
                 running, n_invokes, driver, os_environ, sandbox_env, clients, allowed, ttl, stopped,
                 function_code, faas_cgroup, cgroups, temp_dirs, alive>>

(* ------------------------------ invoke_function ----------------------- *)
\* GetFunction as it would be if an unknown name got a default configuration.
GetFunctionDefault(fn) ==
  IF fn \in DOMAIN functions THEN functions[fn] ELSE ConfigOf(fn)

\* FunctionRegistry.get_function: self.functions.get(name), None as NoConfig.
GetFunction(fn) ==
  IF fn \in DOMAIN functions THEN functions[fn] ELSE NoConfig

\* Lines 283-285: resolve the config, 404 when the name is not registered.
InvokeStart(t, fn) ==
  /\ Sched(t)
  /\ Serving
  /\ t \in Workers
  /\ th[t].op = "idle"
  /\ n_invokes < InvokeBudget
  /\ n_invokes' = n_invokes + 1
  /\ th' = [th EXCEPT ![t] =
              IF GetFunction(fn) # NoConfig
              THEN [IdleThread EXCEPT !.op = "invoke", !.pc = "probe", !.fn = fn,
                                      !.cfg = GetFunction(fn), !.ret = "done"]
              ELSE Done([IdleThread EXCEPT !.op = "invoke", !.fn = fn], 404)]
  /\ UNCHANGED <<functions, load_balancer, all_instances, heap, proc_instances,
                 cont_instances, up, unkillable, now, uuid_calls, running, driver, os_environ, sandbox_env, clients, allowed, ttl, stopped,
                 function_code, faas_cgroup, cgroups, temp_dirs, alive>>

\* Lines 321-322: healthy_instances[round_robin_index % len(healthy_instances)]
PickInstance(healthy, index) == healthy[(index % Len(healthy)) + 1]

\* NextIndex as it would be if the cursor stayed where it is.
NextIndexStuck(healthy, index) == index

\* Line 323: (round_robin_index + 1) % len(healthy_instances)
NextIndex(healthy, index) == (index + 1) % Len(healthy)

\* UnderLimit as it would be if the limit itself still admitted an instance.
UnderLimitOrAt(n, cfg) == n <= cfg.max_instances

\* UnderLimit as it would be if no limit were looked at.
UnderLimitAlways(n, cfg) == TRUE

\* Line 326: len(load_state.instances) < function_config.max_instances
UnderLimit(n, cfg) == n < cfg.max_instances

\* _get_or_create_instance, lines 309-327: create the load state, probe the
\* instances, pick round-robin among the healthy ones or go on to provision.
InvokeProbe(t) ==
  /\ Sched(t)
  /\ th[t].pc = "probe"
  /\ LET rec == th[t]
         lb == IF rec.fn \in DOMAIN load_balancer THEN load_balancer
               ELSE Put(load_balancer, rec.fn, NewLoadState)
         st == lb[rec.fn]
         healthy == SelectSeq(st.instances, LAMBDA r : IsInstanceAvailable(r))
     IN IF healthy # <<>>
        THEN /\ load_balancer' =
                  [lb EXCEPT ![rec.fn].round_robin_index =
                      NextIndex(healthy, st.round_robin_index)]
             /\ th' = [th EXCEPT ![t] =
                         [rec EXCEPT !.pc = "call",
                                     !.rid = PickInstance(healthy, st.round_robin_index)]]
        ELSE /\ load_balancer' = lb
             /\ th' = [th EXCEPT ![t] =
                         [rec EXCEPT !.pc = IF UnderLimit(Len(st.instances), rec.cfg)
                                            THEN "create" ELSE "wait"]]
  /\ UNCHANGED <<functions, all_instances, heap, proc_instances, cont_instances, up, unkillable,
                 now, uuid_calls, running, n_invokes, driver, os_environ, sandbox_env, clients, allowed, ttl, stopped,
                 function_code, faas_cgroup, cgroups, temp_dirs, alive>>

\* Lines 329-338: one probe of the admission wait; the tenth failed probe
\* gives up and invoke_function answers 500.
InvokeWait(t) ==
  /\ Sched(t)
  /\ th[t].pc = "wait"
  /\ LET rec == th[t]
         healthy == HealthyInstances(rec.fn)
     IN th' = [th EXCEPT ![t] =
                 IF healthy # <<>>
                 THEN [rec EXCEPT !.pc = "call", !.rid = healthy[1], !.polls = 0]
                 ELSE IF rec.polls + 1 >= AdmissionPolls
                      THEN Done([rec EXCEPT !.polls = 0], 500)
                      ELSE [rec EXCEPT !.polls = rec.polls + 1]]
  /\ UNCHANGED <<functions, load_balancer, all_instances, heap, proc_instances,
                 cont_instances, up, unkillable, now, uuid_calls, running, n_invokes, driver, os_environ, sandbox_env, clients, allowed, ttl, stopped,
                 function_code, faas_cgroup, cgroups, temp_dirs, alive>>

\* What can happen to the POST of _call_instance.  A port nobody listens on
\* refuses the connection.  A sandbox that listens answers: "ok" when the
\* handler returned, "function_timeout" when the handler outran the
\* function's timeout, "function_error" when it raised (runtime_host.py
\* 146-159, 174-198); or the client gives up after its own 30 s
\* ("client_timeout"), or fails otherwise ("client_error").
Outcomes(r) ==
  IF Listening(heap[r].port)
  THEN {"ok", "function_timeout", "function_error", "client_timeout", "client_error"}
  ELSE {"refused"}

\* The status the sandbox puts in its response: do_POST answers 200, or 500
\* for a FunctionExecutionError (the timeout included) and any exception.
SandboxStatus(outcome) == IF outcome = "ok" THEN 200 ELSE 500

\* _call_instance, lines 430-445: the status code returned for an outcome.
StatusOf(outcome) ==
  CASE outcome = "client_timeout" -> 408
    [] outcome = "refused" -> 503
    [] outcome = "client_error" -> 500
    [] OTHER -> SandboxStatus(outcome)

CallCodes(r) == {StatusOf(o) : o \in Outcomes(r)}

\* Line 298: response_code >= 400
IsError(code) == code >= 400

InvokeCall(t) ==
  /\ Sched(t)
  /\ th[t].pc = "call"
  /\ LET rec == th[t]
     IN \E outcome \in Outcomes(rec.rid) :
          LET code == StatusOf(outcome)
          IN /\ th' = [th EXCEPT ![t] =
                         [rec EXCEPT !.pc = "rc_read", !.code = code, !.out = outcome]]
             /\ heap' = [heap EXCEPT ![rec.rid].calls = @ + 1,
                                     ![rec.rid].errors = IF code >= 400 THEN @ + 1 ELSE @]
  /\ UNCHANGED <<functions, load_balancer, all_instances, proc_instances,
                 cont_instances, up, unkillable, now, uuid_calls, running, n_invokes, driver, os_environ, sandbox_env, clients, allowed, ttl, stopped,
                 function_code, faas_cgroup, cgroups, temp_dirs, alive>>

\* Line 296, `instance.request_count += 1`: the read ...
InvokeReadRequestCount(t) ==
  /\ Sched(t)
  /\ th[t].pc = "rc_read"
  /\ th' = [th EXCEPT ![t] = [@ EXCEPT !.pc = "rc_write", !.out = "none",
                                        !.tmp = heap[th[t].rid].request_count]]
  /\ UNCHANGED <<functions, load_balancer, all_instances, heap, proc_instances,
                 cont_instances, up, unkillable, now, uuid_calls, running, n_invokes, driver, os_environ, sandbox_env, clients, allowed, ttl, stopped,
                 function_code, faas_cgroup, cgroups, temp_dirs, alive>>

\* ... and the write, followed by line 297, `instance.last_used = time.time()`.
InvokeWriteRequestCount(t) ==
  /\ Sched(t)
  /\ th[t].pc = "rc_write"
  /\ LET rec == th[t]
     IN /\ heap' = [heap EXCEPT ![rec.rid].request_count = rec.tmp + 1,
                                ![rec.rid].last_used = now]
        /\ th' = [th EXCEPT ![t] =
                    IF IsError(rec.code) THEN [rec EXCEPT !.pc = "ec_read", !.tmp = 0]
                    ELSE Done([rec EXCEPT !.tmp = 0], rec.code)]
  /\ UNCHANGED <<functions, load_balancer, all_instances, proc_instances,
                 cont_instances, up, unkillable, now, uuid_calls, running, n_invokes, driver, os_environ, sandbox_env, clients, allowed, ttl, stopped,
                 function_code, faas_cgroup, cgroups, temp_dirs, alive>>

\* Lines 298-299, `instance.error_count += 1`: the read ...
InvokeReadErrorCount(t) ==
  /\ Sched(t)
  /\ th[t].pc = "ec_read"
  /\ th' = [th EXCEPT ![t] = [@ EXCEPT !.pc = "ec_write", !.tmp = heap[th[t].rid].error_count]]
  /\ UNCHANGED <<functions, load_balancer, all_instances, heap, proc_instances,
                 cont_instances, up, unkillable, now, uuid_calls, running, n_invokes, driver, os_environ, sandbox_env, clients, allowed, ttl, stopped,
                 function_code, faas_cgroup, cgroups, temp_dirs, alive>>

\* ... and the write; invoke_function returns the upstream status.
InvokeWriteErrorCount(t) ==
  /\ Sched(t)
  /\ th[t].pc = "ec_write"
  /\ LET rec == th[t]
     IN /\ heap' = [heap EXCEPT ![rec.rid].error_count = rec.tmp + 1]
        /\ th' = [th EXCEPT ![t] = Done([rec EXCEPT !.tmp = 0], rec.code)]
  /\ UNCHANGED <<functions, load_balancer, all_instances, proc_instances,
                 cont_instances, up, unkillable, now, uuid_calls, running, n_invokes, driver, os_environ, sandbox_env, clients, allowed, ttl, stopped,
                 function_code, faas_cgroup, cgroups, temp_dirs, alive>>

\* The runtime ids of the FunctionInstance objects something still refers to.
Referenced ==
  all_instances
    \cup UNION {Range(load_balancer[fn].instances) : fn \in DOMAIN load_balancer}
    \cup {th[t].rid : t \in Threads}
    \cup UNION {Range(th[t].todo) \cup Range(th[t].filt) : t \in Threads}

\* AfterTick as it would be if an exception raised in a tick left the loop.
AfterTickRaise(rec) ==
  IF rec.code = 500 THEN [rec EXCEPT !.pc = "ended"] ELSE IdleThread

\* _scale_loop and _cleanup_loop, lines 137-143 and 472-485: the tick has
\* returned or its exception was caught; the thread sleeps and is then ready
\* for the next iteration of `while self.running`.
AfterTick(rec) == IdleThread

\* The caller takes the result; the thread is free again, and the objects
\* nothing refers to any more are gone.
Return(t) ==
  /\ Sched(t)
  /\ th[t].pc = "done"
  /\ th' = [th EXCEPT ![t] = IF t \in {Scaler, Reaper} THEN AfterTick(th[t])
                                ELSE IdleThread]
  /\ UNCHANGED <<functions, load_balancer, all_instances, proc_instances,
                 cont_instances, up, unkillable, now, uuid_calls, running, n_invokes, driver, os_environ, sandbox_env, clients, allowed, ttl, stopped,
                 function_code, faas_cgroup, cgroups, temp_dirs, alive>>
  /\ heap' = [r \in (DOMAIN heap) \cap Referenced' |-> heap[r]]

(* ------------------------------ stop ---------------------------------- *)
\* executor.stop_instance(r): True exactly when the executor holds r and the
\* sandbox could be terminated (process_executor.py 352-387,
\* container_executor.py 342-357).
StopInstanceResult(mode, r) ==
  /\ ExecutorHas(mode, r)
  /\ StopMayFail(mode) => r \notin unkillable

\* WithoutInstance as it would be if the list were left as it is.
WithoutInstanceKeep(insts, r) == insts

\* [inst for inst in load_state.instances if inst.runtime_id != runtime_id]
WithoutInstance(insts, r) == SelectSeq(insts, LAMBDA x : x # r)

\* DELETE /instances/<runtime_id> (api_gateway.py 386-393), for the id of an
\* instance or for an id nothing has (0).
StopStart(t, r) ==
  /\ Sched(t)
  /\ Serving
  /\ r = 0 \/ r \in DOMAIN heap
  /\ t \in Workers
  /\ th[t].op = "idle"
  /\ th' = [th EXCEPT ![t] =
              [IdleThread EXCEPT !.op = "stop", !.pc = "stop_exec", !.rid = r, !.ret = "done"]]
  /\ UNCHANGED <<functions, load_balancer, all_instances, heap, proc_instances, cont_instances, up, unkillable, now, uuid_calls, running, n_invokes, driver, os_environ, sandbox_env, clients, allowed, ttl, stopped,
                 function_code, faas_cgroup, cgroups, temp_dirs, alive>>

\* The same caller stops the same runtime_id once more, right away.
StopRepeat(t) ==
  /\ Sched(t)
  /\ th[t].op = "stop"
  /\ th[t].pc = "done"
  /\ th[t].count = 0
  /\ th' = [th EXCEPT ![t] =
              [@ EXCEPT !.pc = "stop_exec", !.count = 1, !.ok = (th[t].code = 200)]]
  /\ UNCHANGED <<functions, load_balancer, all_instances, heap, proc_instances, cont_instances, up, unkillable, now, uuid_calls, running, n_invokes, driver, os_environ, sandbox_env, clients, allowed, ttl, stopped,
                 function_code, faas_cgroup, cgroups, temp_dirs, alive>>

\* OwnerMode as it would be if the function's present config were asked.
OwnerModeOfConfig(r) == GetFunction(heap[r].function_name).execution_mode

\* Lines 391-394: the executor is chosen by the instance's own execution_mode.
OwnerMode(r) == heap[r].execution_mode

\* _stop_function_instance, lines 385-397: look the instance up and have its
\* executor stop it.
StopExec(t) ==
  /\ Sched(t)
  /\ th[t].pc = "stop_exec"
  /\ LET rec == th[t]
         r == rec.rid
     IN IF r \notin all_instances
        THEN /\ th' = [th EXCEPT ![t] = Resume(rec, FALSE)]
             /\ UNCHANGED <<proc_instances, cont_instances, up>>
        ELSE LET mode == OwnerMode(r)
             IN IF StopInstanceResult(mode, r)
                THEN /\ IF mode = "container"
                        THEN /\ cont_instances' = Remove(cont_instances, r)
                             /\ UNCHANGED proc_instances
                        ELSE /\ proc_instances' = Remove(proc_instances, r)
                             /\ UNCHANGED cont_instances
                     /\ up' = up \ {r}
                     /\ th' = [th EXCEPT ![t] = [rec EXCEPT !.pc = "stop_untrack"]]
                ELSE /\ th' = [th EXCEPT ![t] = Resume(rec, FALSE)]
                     /\ UNCHANGED <<proc_instances, cont_instances, up>>
  /\ UNCHANGED <<functions, load_balancer, all_instances, heap, unkillable, now, uuid_calls, running, n_invokes, driver, os_environ, sandbox_env, clients, allowed, ttl, stopped,
                 function_code, faas_cgroup, cgroups, temp_dirs, alive>>

\* Lines 399-408: drop the key and compute the filtered instance list ...
StopUntrack(t) ==
  /\ Sched(t)
  /\ th[t].pc = "stop_untrack"
  /\ LET rec == th[t]
         fn == heap[rec.rid].function_name
     IN /\ all_instances' = all_instances \ {rec.rid}
        /\ th' = [th EXCEPT ![t] =
                    IF fn \in DOMAIN load_balancer
                    THEN [rec EXCEPT !.pc = "stop_store",
                                     !.filt = WithoutInstance(load_balancer[fn].instances, rec.rid)]
                    ELSE Resume(rec, TRUE)]
  /\ UNCHANGED <<functions, load_balancer, heap, proc_instances, cont_instances, up, unkillable, now, uuid_calls, running, n_invokes, driver, os_environ, sandbox_env, clients, allowed, ttl, stopped,
                 function_code, faas_cgroup, cgroups, temp_dirs, alive>>

\* ... and store it as load_state.instances.
StopStore(t) ==
  /\ Sched(t)
  /\ th[t].pc = "stop_store"
  /\ LET rec == th[t]
         fn == heap[rec.rid].function_name
     IN /\ load_balancer' = [load_balancer EXCEPT ![fn].instances = rec.filt]
        /\ th' = [th EXCEPT ![t] = Resume([rec EXCEPT !.filt = <<>>], TRUE)]
  /\ UNCHANGED <<functions, all_instances, heap, proc_instances, cont_instances, up, unkillable, now, uuid_calls, running, n_invokes, driver, os_environ, sandbox_env, clients, allowed, ttl, stopped,
                 function_code, faas_cgroup, cgroups, temp_dirs, alive>>

(* --------------------------- registry, delete ------------------------- *)
\* FunctionRegistry.register_function (POST /functions).
RegisterFunction(t, fn) ==
  /\ Sched(t)
  /\ Serving
  /\ t \in Workers
  /\ th[t].op = "idle"
  /\ functions' = Put(functions, fn, ConfigOf(fn))
  /\ function_code' = Put(function_code, fn, 1)
  /\ th' = [th EXCEPT ![t] = Done([IdleThread EXCEPT !.op = "register", !.fn = fn], 201)]
  /\ UNCHANGED <<load_balancer, all_instances, heap, proc_instances, cont_instances, up, unkillable, now, uuid_calls, running, n_invokes, driver, os_environ, sandbox_env, clients, allowed, ttl, stopped,
                 faas_cgroup, cgroups, temp_dirs, alive>>

\* delete_function, lines 315-317: snapshot the function's instance list.
DeleteStart(t, fn) ==
  /\ Sched(t)
  /\ Serving
  /\ t \in Workers
  /\ th[t].op = "idle"
  /\ th' = [th EXCEPT ![t] =
              [IdleThread EXCEPT !.op = "delete", !.pc = "del_loop", !.fn = fn,
                 !.todo = IF fn \in DOMAIN load_balancer
                          THEN load_balancer[fn].instances ELSE <<>>]]
  /\ UNCHANGED <<functions, load_balancer, all_instances, heap, proc_instances, cont_instances, up, unkillable, now, uuid_calls, running, n_invokes, driver, os_environ, sandbox_env, clients, allowed, ttl, stopped,
                 function_code, faas_cgroup, cgroups, temp_dirs, alive>>

\* RemoveFunction as it would be if the entry were kept.
RemoveFunctionKeep(fs, fn) == fs

\* FunctionRegistry.remove_function: the registry without `fn`.
RemoveFunction(fs, fn) == Remove(fs, fn)

\* delete_function, lines 317-325: stop the next instance of the snapshot, or,
\* the snapshot exhausted, remove the function from the registry.
DeleteLoop(t) ==
  /\ Sched(t)
  /\ th[t].pc = "del_loop"
  /\ LET rec == th[t]
     IN IF rec.todo # <<>>
        THEN /\ th' = [th EXCEPT ![t] =
                         [rec EXCEPT !.pc = "stop_exec", !.rid = Head(rec.todo),
                                     !.todo = Tail(rec.todo), !.ret = "del_loop"]]
             /\ UNCHANGED <<functions, function_code>>
        ELSE /\ functions' = RemoveFunction(functions, rec.fn)
             /\ function_code' = Remove(function_code, rec.fn)
             /\ th' = [th EXCEPT ![t] =
                         Done([rec EXCEPT !.rid = 0, !.ok = FALSE],
                              IF rec.fn \in DOMAIN functions THEN 200 ELSE 404)]
  /\ UNCHANGED <<load_balancer, all_instances, heap, proc_instances, cont_instances, up, unkillable, now, uuid_calls, running, n_invokes, driver, os_environ, sandbox_env, clients, allowed, ttl, stopped,
                 faas_cgroup, cgroups, temp_dirs, alive>>

(* ------------------------------ autoscaler ---------------------------- *)
\* min(load_state.instances, key=lambda x: x.last_used): the first of the
\* least recently used.
OldestInstance(insts) ==
  LET i == CHOOSE i \in 1..Len(insts) :
             /\ \A j \in 1..Len(insts) : heap[insts[i]].last_used <= heap[insts[j]].last_used
             /\ \A j \in 1..(i - 1) : heap[insts[j]].last_used > heap[insts[i]].last_used
  IN insts[i]

\* _check_and_scale_functions, lines 150-180, for one function: what the
\* tick that started at current_time decides.
ScaleDecision(fn, current_time) ==
  IF fn \notin DOMAIN load_balancer THEN "skip"
  ELSE LET st == load_balancer[fn]
           total == Len(st.instances)
           active == Len(HealthyInstances(fn))
       IN IF total = 0 THEN "skip"
          ELSE IF current_time - st.last_scale_event < MinScaleInterval THEN "skip"
          ELSE IF fn \notin DOMAIN functions THEN "skip"
          ELSE IF /\ active > 0
                  /\ active * 10 > total * 8
                  /\ total < functions[fn].max_instances
               THEN "up"
          ELSE IF /\ total > functions[fn].min_instances
                  /\ active * 10 < total * 3
               THEN "down"
          ELSE "skip"

\* One iteration of _scale_loop begins: line 147 and the list of line 149.
ScaleStart(t) ==
  /\ Sched(t)
  /\ t = Scaler
  /\ running
  /\ th[t].op = "idle"
  /\ th' = [th EXCEPT ![t] =
              [IdleThread EXCEPT !.op = "scale", !.pc = "scale_eval",
                                 !.fns = ListFunctions, !.t0 = now]]
  /\ UNCHANGED <<functions, load_balancer, all_instances, heap, proc_instances, cont_instances, up, unkillable, now, uuid_calls, running, n_invokes, driver, os_environ, sandbox_env, clients, allowed, ttl, stopped,
                 function_code, faas_cgroup, cgroups, temp_dirs, alive>>

ScaleEval(t) ==
  /\ Sched(t)
  /\ th[t].pc = "scale_eval"
  /\ LET rec == th[t]
     IN th' = [th EXCEPT ![t] =
          IF rec.fns = <<>> THEN Done(rec, 0)
          ELSE LET fn == Head(rec.fns)
                   d == ScaleDecision(fn, rec.t0)
               IN IF d = "up"
                  THEN [rec EXCEPT !.fn = fn, !.cfg = functions[fn], !.pc = "create",
                                   !.ret = "scale_mark"]
                  ELSE IF d = "down"
                  THEN [rec EXCEPT !.fn = fn, !.cfg = functions[fn], !.pc = "scale_down"]
                  ELSE [rec EXCEPT !.fns = Tail(rec.fns)]]
  /\ UNCHANGED <<functions, load_balancer, all_instances, heap, proc_instances, cont_instances, up, unkillable, now, uuid_calls, running, n_invokes, driver, os_environ, sandbox_env, clients, allowed, ttl, stopped,
                 function_code, faas_cgroup, cgroups, temp_dirs, alive>>

\* _scale_down, lines 193-198.
ScaleDown(t) ==
  /\ Sched(t)
  /\ th[t].pc = "scale_down"
  /\ LET rec == th[t]
     IN th' = [th EXCEPT ![t] =
          IF /\ rec.fn \in DOMAIN load_balancer
             /\ Len(load_balancer[rec.fn].instances) > rec.cfg.min_instances
          THEN [rec EXCEPT !.pc = "stop_exec",
                           !.rid = OldestInstance(load_balancer[rec.fn].instances),
                           !.ret = "scale_mark"]
          ELSE [rec EXCEPT !.pc = "scale_mark"]]
  /\ UNCHANGED <<functions, load_balancer, all_instances, heap, proc_instances, cont_instances, up, unkillable, now, uuid_calls, running, n_invokes, driver, os_environ, sandbox_env, clients, allowed, ttl, stopped,
                 function_code, faas_cgroup, cgroups, temp_dirs, alive>>

\* Lines 173 / 180: load_state.last_scale_event = current_time.
ScaleMark(t) ==
  /\ Sched(t)
  /\ th[t].pc = "scale_mark"
  /\ LET rec == th[t]
     IN /\ load_balancer' =
             [load_balancer EXCEPT ![rec.fn].last_scale_event = rec.t0,
                                   ![rec.fn].last_scale_action =
                                       IF rec.ok THEN rec.t1 ELSE @]
        /\ th' = [th EXCEPT ![t] =
                    [rec EXCEPT !.pc = "scale_eval", !.fns = Tail(rec.fns), !.fn = "none",
                                !.cfg = NoConfig, !.rid = 0, !.ok = FALSE,
                                !.t1 = 0]]
  /\ UNCHANGED <<functions, all_instances, heap, proc_instances, cont_instances, up, unkillable, now, uuid_calls, running, n_invokes, driver, os_environ, sandbox_env, clients, allowed, ttl, stopped,
                 function_code, faas_cgroup, cgroups, temp_dirs, alive>>

(* -------------------------------- reaper ------------------------------ *)
\* cleanup_expired_instances: the ids whose last_used is older than the TTL.
ExpiredInstances(insts, ttl_seconds) ==
  {r \in DOMAIN insts : now - insts[r].last_used > ttl_seconds}

\* One iteration of _cleanup_loop begins.
ReapStart(t) ==
  /\ Sched(t)
  /\ t = Reaper
  /\ running
  /\ th[t].op = "idle"
  /\ th' = [th EXCEPT ![t] = [IdleThread EXCEPT !.op = "reap", !.pc = "reap_proc"]]
  /\ UNCHANGED <<functions, load_balancer, all_instances, heap, proc_instances, cont_instances, up, unkillable, now, uuid_calls, running, n_invokes, driver, os_environ, sandbox_env, clients, allowed, ttl, stopped,
                 function_code, faas_cgroup, cgroups, temp_dirs, alive>>

\* process_executor.cleanup_expired_instances(ttl)
ReapProcess(t) ==
  /\ Sched(t)
  /\ th[t].pc = "reap_proc"
  /\ LET gone == {r \in ExpiredInstances(proc_instances, ttl) :
                     StopInstanceResult("process", r)}
     IN /\ proc_instances' = [r \in (DOMAIN proc_instances) \ gone |-> proc_instances[r]]
        /\ up' = up \ gone
  /\ th' = [th EXCEPT ![t] = [@ EXCEPT !.pc = "reap_cont"]]
  /\ UNCHANGED <<functions, load_balancer, all_instances, heap, cont_instances, unkillable, now, uuid_calls, running, n_invokes, driver, os_environ, sandbox_env, clients, allowed, ttl, stopped,
                 function_code, faas_cgroup, cgroups, temp_dirs, alive>>

\* container_executor.cleanup_expired_instances(ttl)
ReapContainer(t) ==
  /\ Sched(t)
  /\ th[t].pc = "reap_cont"
  /\ LET gone == {r \in ExpiredInstances(cont_instances, ttl) :
                     StopInstanceResult("container", r)}
     IN /\ cont_instances' = [r \in (DOMAIN cont_instances) \ gone |-> cont_instances[r]]
        /\ up' = up \ gone
  /\ th' = [th EXCEPT ![t] = [@ EXCEPT !.pc = "reap_scan"]]
  /\ UNCHANGED <<functions, load_balancer, all_instances, heap, proc_instances, unkillable, now, uuid_calls, running, n_invokes, driver, os_environ, sandbox_env, clients, allowed, ttl, stopped,
                 function_code, faas_cgroup, cgroups, temp_dirs, alive>>

\* OrphanedIds as it would be if the executors were not asked.
OrphanedIdsAll == SortedSeq(all_instances)

\* _cleanup_orphaned_tracking, lines 489-497: the tracked ids their executor
\* does not know, in the order of the index.
OrphanedIds ==
  SortedSeq({r \in all_instances : ~ExecutorHas(heap[r].execution_mode, r)})

ReapScan(t) ==
  /\ Sched(t)
  /\ th[t].pc = "reap_scan"
  /\ th' = [th EXCEPT ![t] = [@ EXCEPT !.pc = "reap_loop", !.todo = OrphanedIds]]
  /\ UNCHANGED <<functions, load_balancer, all_instances, heap, proc_instances, cont_instances, up, unkillable, now, uuid_calls, running, n_invokes, driver, os_environ, sandbox_env, clients, allowed, ttl, stopped,
                 function_code, faas_cgroup, cgroups, temp_dirs, alive>>

\* Lines 499-507: the next orphan; its filtered instance list is computed.
ReapLoop(t) ==
  /\ Sched(t)
  /\ th[t].pc = "reap_loop"
  /\ LET rec == th[t]
     IN IF rec.todo = <<>>
        THEN /\ th' = [th EXCEPT ![t] = Done([rec EXCEPT !.rid = 0], 0)]
             /\ UNCHANGED all_instances
        ELSE LET r == Head(rec.todo)
             IN IF r \notin all_instances
                THEN /\ th' = [th EXCEPT ![t] = [rec EXCEPT !.todo = Tail(rec.todo)]]
                     /\ UNCHANGED all_instances
                ELSE IF heap[r].function_name \in DOMAIN load_balancer
                THEN /\ th' = [th EXCEPT ![t] =
                                 [rec EXCEPT !.pc = "reap_store", !.rid = r,
                                    !.filt = WithoutInstance(
                                        load_balancer[heap[r].function_name].instances, r)]]
                     /\ UNCHANGED all_instances
                ELSE /\ all_instances' = all_instances \ {r}
                     /\ th' = [th EXCEPT ![t] = [rec EXCEPT !.todo = Tail(rec.todo)]]
  /\ UNCHANGED <<functions, load_balancer, heap, proc_instances, cont_instances, up, unkillable, now, uuid_calls, running, n_invokes, driver, os_environ, sandbox_env, clients, allowed, ttl, stopped,
                 function_code, faas_cgroup, cgroups, temp_dirs, alive>>

\* Lines 506-509: the list is stored and the key deleted; deleting a key that
\* is gone raises, which ends the tick (line 483).
ReapStore(t) ==
  /\ Sched(t)
  /\ th[t].pc = "reap_store"
  /\ LET rec == th[t]
         fn == heap[rec.rid].function_name
     IN /\ load_balancer' = [load_balancer EXCEPT ![fn].instances = rec.filt]
        /\ all_instances' = all_instances \ {rec.rid}
        /\ th' = [th EXCEPT ![t] =
                    IF rec.rid \in all_instances
                    THEN [rec EXCEPT !.pc = "reap_loop", !.todo = Tail(rec.todo),
                                     !.filt = <<>>, !.rid = 0]
                    ELSE Done([rec EXCEPT !.todo = <<>>, !.filt = <<>>, !.rid = 0], 500)]
  /\ UNCHANGED <<functions, heap, proc_instances, cont_instances, up, unkillable, now, uuid_calls, running, n_invokes, driver, os_environ, sandbox_env, clients, allowed, ttl, stopped,
                 function_code, faas_cgroup, cgroups, temp_dirs, alive>>

(* ------------------------------- start -------------------------------- *)
\* FaaSOrchestrator.start, lines 238-248: the flags are set, pre-warm begins.
\* create_app calls it once, when the orchestrator is constructed.
StartBegin(t) ==
  /\ Sched(t)
  /\ t \in Workers
  /\ th[t].op = "idle"
  /\ ~running
  /\ ~stopped
  /\ running' = TRUE
  /\ th' = [th EXCEPT ![t] =
              [IdleThread EXCEPT !.op = "start", !.pc = "warm_next", !.fns = ListFunctions]]
  /\ UNCHANGED <<functions, load_balancer, all_instances, heap, proc_instances, cont_instances, up, unkillable, now, uuid_calls, n_invokes, driver, os_environ, sandbox_env, clients, allowed, ttl, stopped,
                 function_code, faas_cgroup, cgroups, temp_dirs, alive>>

\* _pre_warm_functions, lines 458-461: the next function of the list.
WarmNext(t) ==
  /\ Sched(t)
  /\ th[t].pc = "warm_next"
  /\ LET rec == th[t]
     IN th' = [th EXCEPT ![t] =
          IF rec.fns = <<>> THEN Done(rec, 200)
          ELSE LET fn == Head(rec.fns)
               IN IF fn \in DOMAIN functions /\ functions[fn].min_instances > 0
                  THEN [rec EXCEPT !.pc = "warm_loop", !.fn = fn, !.cfg = functions[fn],
                                   !.count = functions[fn].min_instances]
                  ELSE [rec EXCEPT !.fns = Tail(rec.fns)]]
  /\ UNCHANGED <<functions, load_balancer, all_instances, heap, proc_instances, cont_instances, up, unkillable, now, uuid_calls, running, n_invokes, driver, os_environ, sandbox_env, clients, allowed, ttl, stopped,
                 function_code, faas_cgroup, cgroups, temp_dirs, alive>>

\* Lines 463-468: the loop over range(min_instances).  The call of
\* _create_function_instance never raises (it returns None), so the loop
\* runs on whatever the attempt's outcome.
WarmLoop(t) ==
  /\ Sched(t)
  /\ th[t].pc = "warm_loop"
  /\ LET rec == th[t]
     IN th' = [th EXCEPT ![t] =
          IF rec.count > 0
          THEN [rec EXCEPT !.pc = "create", !.count = rec.count - 1, !.ret = "warm_loop"]
          ELSE [rec EXCEPT !.pc = "warm_next", !.fns = Tail(rec.fns), !.fn = "none",
                           !.cfg = NoConfig, !.rid = 0, !.ok = FALSE]]
  /\ UNCHANGED <<functions, load_balancer, all_instances, heap, proc_instances, cont_instances, up, unkillable, now, uuid_calls, running, n_invokes, driver, os_environ, sandbox_env, clients, allowed, ttl, stopped,
                 function_code, faas_cgroup, cgroups, temp_dirs, alive>>

(* ----------------------------- environment ---------------------------- *)
\* A sandbox stops answering (it crashed, hangs or is busy).
EnvDown(r) ==
  /\ EnvSched
  /\ r \in up
  /\ up' = up \ {r}
  /\ UNCHANGED <<functions, load_balancer, all_instances, heap, proc_instances, cont_instances, unkillable, now, uuid_calls, running, th, n_invokes, driver, os_environ, sandbox_env, clients, allowed, ttl, stopped,
                 function_code, faas_cgroup, cgroups, temp_dirs, alive>>

\* The child process or container of r is no longer running.
Exited(r) ==
  \/ r \in DOMAIN proc_instances /\ proc_instances[r].exited
  \/ r \in DOMAIN cont_instances /\ cont_instances[r].exited

\* A sandbox held by an executor (starts to) answer on its port, if free.
EnvUp(r) ==
  /\ EnvSched
  /\ r \in (DOMAIN proc_instances) \cup (DOMAIN cont_instances)
  /\ ~Exited(r)
  /\ r \notin up
  /\ ~Listening(SandboxPort(r))
  /\ up' = up \cup {r}
  /\ UNCHANGED <<functions, load_balancer, all_instances, heap, proc_instances, cont_instances, unkillable, now, uuid_calls, running, th, n_invokes, driver, os_environ, sandbox_env, clients, allowed, ttl, stopped,
                 function_code, faas_cgroup, cgroups, temp_dirs, alive>>

\* Time passes.
Advance ==
  /\ EnvSched
  /\ now + TimeStep <= StartTime + MaxTicks * TimeStep
  /\ now' = now + TimeStep
  /\ UNCHANGED <<functions, load_balancer, all_instances, heap, proc_instances, cont_instances, up, unkillable, uuid_calls, running, th, n_invokes, driver, os_environ, sandbox_env, clients, allowed, ttl, stopped,
                 function_code, faas_cgroup, cgroups, temp_dirs, alive>>

(* --------------------------- specifications --------------------------- *)
Next ==
  \/ \E t \in Workers, fn \in FnNames : InvokeStart(t, fn)
  \/ \E t \in Threads : InvokeProbe(t)
  \/ \E t \in Threads : InvokeWait(t)
  \/ \E t \in Threads : CreateExec(t)
  \/ \E t \in Threads : CreateRegister(t)
  \/ \E t \in Threads : InvokeCall(t)
  \/ \E t \in Threads : InvokeReadRequestCount(t)
  \/ \E t \in Threads : InvokeWriteRequestCount(t)
  \/ \E t \in Threads : InvokeReadErrorCount(t)
  \/ \E t \in Threads : InvokeWriteErrorCount(t)
  \/ \E t \in Threads : Return(t)
  \/ \E t \in Workers, r \in 0..(2 * MaxCreates) : StopStart(t, r)
  \/ \E t \in Threads : StopRepeat(t)
  \/ \E t \in Threads : StopExec(t)
  \/ \E t \in Threads : StopUntrack(t)
  \/ \E t \in Threads : StopStore(t)
  \/ \E t \in Workers, fn \in FnNames : RegisterFunction(t, fn)
  \/ \E t \in Workers, fn \in FnNames : DeleteStart(t, fn)
  \/ \E t \in Threads : DeleteLoop(t)
  \/ \E t \in Threads : ScaleStart(t)
  \/ \E t \in Threads : ScaleEval(t)
  \/ \E t \in Threads : ScaleDown(t)
  \/ \E t \in Threads : ScaleMark(t)
  \/ \E t \in Threads : ReapStart(t)
  \/ \E t \in Threads : ReapProcess(t)
  \/ \E t \in Threads : ReapContainer(t)
  \/ \E t \in Threads : ReapScan(t)
  \/ \E t \in Threads : ReapLoop(t)
  \/ \E t \in Threads : ReapStore(t)
  \/ \E t \in Workers : StartBegin(t)
  \/ \E t \in Threads : WarmNext(t)
  \/ \E t \in Threads : WarmLoop(t)
  \/ \E r \in 1..(2 * MaxCreates) : EnvDown(r)
  \/ \E r \in 1..(2 * MaxCreates) : EnvUp(r)
  \/ Advance

Spec == Init /\ [][Next]_vars

\* Worker threads serving invoke_function calls next to the autoscaler thread.
NextConc ==
  \/ \E t \in Workers : StartBegin(t)
  \/ \E t \in Threads : WarmNext(t)
  \/ \E t \in Workers, fn \in FnNames : InvokeStart(t, fn)
  \/ \E t \in Threads : InvokeProbe(t)
  \/ \E t \in Threads : InvokeWait(t)
  \/ \E t \in Threads : CreateExec(t)
  \/ \E t \in Threads : CreateRegister(t)
  \/ \E t \in Threads : InvokeCall(t)
  \/ \E t \in Threads : InvokeReadRequestCount(t)
  \/ \E t \in Threads : InvokeWriteRequestCount(t)
  \/ \E t \in Threads : InvokeReadErrorCount(t)
  \/ \E t \in Threads : InvokeWriteErrorCount(t)
  \/ \E t \in Threads : Return(t)
  \/ \E t \in Threads : ScaleStart(t)
  \/ \E t \in Threads : ScaleEval(t)
  \/ \E t \in Threads : ScaleDown(t)
  \/ \E t \in Threads : ScaleMark(t)
  \/ \E t \in Threads : StopExec(t)
  \/ \E t \in Threads : StopUntrack(t)
  \/ \E t \in Threads : StopStore(t)

SpecConc == InitConc /\ [][NextConc]_vars

\* A registration of "f" that allows a fleet of MaxFleet instances.
FleetConfig == [ConfigOf("f") EXCEPT !.max_instances = MaxFleet]

\* The orchestrator serving "f" with a fleet of k instances, each answering
\* on a port of its own, the round-robin cursor wherever earlier dispatches
\* (to a fleet that may have been larger) left it.
InitFleet ==
  \E k \in 1..MaxFleet, index \in 0..(MaxFleet - 1) :
    LET ids == {2 * i : i \in 1..k}
    IN /\ now = StartTime
       /\ functions = [n \in {"f"} |-> FleetConfig]
       /\ load_balancer =
            [n \in {"f"} |-> [NewLoadState EXCEPT !.instances = [i \in 1..k |-> 2 * i],
                                                  !.round_robin_index = index]]
       /\ all_instances = ids
       /\ heap = [r \in ids |-> NewInstance("f", "process", PortBase + r)]
       /\ proc_instances = [r \in ids |-> ExecutorRecord("f", PortBase + r, r - 1)]
       /\ cont_instances = <<>>
       /\ up = ids
       /\ unkillable = {}
       /\ uuid_calls = 2 * k
       /\ running = TRUE
       /\ th = [t \in Threads |-> IdleThread]
       /\ n_invokes = 0
       /\ driver = "fixed"
       /\ ttl = WarmInstanceTtl
       /\ stopped = FALSE
       /\ function_code = [n \in DOMAIN functions |-> 1]
       /\ faas_cgroup = FALSE
       /\ cgroups = {}
       /\ temp_dirs = {}
       /\ alive = {}
       /\ InitOther

\* One caller invoking against a fleet that nothing else touches.
NextFleet ==
  \/ \E t \in Workers, fn \in FnNames : InvokeStart(t, fn)
  \/ \E t \in Threads : InvokeProbe(t)
  \/ \E t \in Threads : InvokeCall(t)
  \/ \E t \in Threads : InvokeReadRequestCount(t)
  \/ \E t \in Threads : InvokeWriteRequestCount(t)
  \/ \E t \in Threads : InvokeReadErrorCount(t)
  \/ \E t \in Threads : InvokeWriteErrorCount(t)
  \/ \E t \in Threads : Return(t)

SpecFleet == InitFleet /\ [][NextFleet]_vars

(* ------------------------------- claims ------------------------------- *)
\* How often r occurs in the instance list of fn.
Occurrences(fn, r) ==
  IF fn \in DOMAIN load_balancer
  THEN Cardinality({i \in 1..Len(load_balancer[fn].instances) :
                      load_balancer[fn].instances[i] = r})
  ELSE 0

\* The runtime ids found in some LoadBalancingState.instances list.
Listed == UNION {Range(load_balancer[fn].instances) : fn \in DOMAIN load_balancer}

\* len(load_balancer[fn].instances), 0 when fn has no load state.
InstanceCount(fn) ==
  IF fn \in DOMAIN load_balancer THEN Len(load_balancer[fn].instances) ELSE 0

\* C1: between operations that each ran to completion, the instances found in
\* the load-balancer lists are exactly the keys of all_instances, and each is
\* in the list of its own function, once, and in no other list.
C1_IndexConsistency ==
  Quiescent =>
    /\ Listed = all_instances
    /\ \A r \in all_instances :
         \A fn \in DOMAIN load_balancer :
           Occurrences(fn, r) = IF fn = heap[r].function_name THEN 1 ELSE 0

\* C1 witness: the autoscaler has removed the only instance of "g" (nothing
\* else sets the last_scale_event of a function whose max_instances is 1),
\* an instance of "f" is still tracked, and no operation is running.
C1_Witness ==
  /\ Quiescent
  /\ "g" \in DOMAIN load_balancer
  /\ load_balancer["g"].last_scale_event > 0
  /\ load_balancer["g"].instances = <<>>
  /\ all_instances # {}

\* C2: under concurrent invoke_function calls and autoscaler ticks no function
\* ever has more instances in its list than its max_instances.
C2_UpperBound ==
  \A fn \in (DOMAIN functions) \cap (DOMAIN load_balancer) :
    Len(load_balancer[fn].instances) <= functions[fn].max_instances

\* Some record of function fn is left in one of the four places.
Remains(fn) ==
  \/ \E r \in all_instances : heap[r].function_name = fn
  \/ \E n \in DOMAIN load_balancer :
       \E r \in Range(load_balancer[n].instances) : heap[r].function_name = fn
  \/ \E r \in DOMAIN proc_instances : proc_instances[r].function_name = fn
  \/ \E r \in DOMAIN cont_instances : cont_instances[r].function_name = fn

\* C3: when delete-function for fn has returned, with nothing else running,
\* fn is not registered and no instance of fn is left in all_instances, in a
\* load-balancer list or in either executor.
C3_DeleteCascade ==
  \A t \in Workers :
    (driver = "serial" /\ th[t].op = "delete" /\ th[t].pc = "done") =>
       /\ th[t].fn \notin DOMAIN functions
       /\ ~Remains(th[t].fn)

\* A step of the second of two stop calls made in a row for one runtime_id:
\* the registry, both indices and both executors stay as the first call left
\* them, and the call, when it ends, answers false (404).
C4_StopStep ==
  \A t \in Workers :
    (th[t].op = "stop" /\ th[t].count = 1 /\ th'[t].op = "stop") =>
       /\ UNCHANGED <<functions, load_balancer, all_instances, heap,
                      proc_instances, cont_instances, up, unkillable>>
       /\ th'[t].pc = "done" => th'[t].code = 404

\* C4: stopping the same runtime_id twice in a row leaves the state the first
\* call produced, and the second call answers false.
C4_StopIdempotent == [][C4_StopStep]_vars

\* C4 witness: the second stop has returned after a first one that stopped
\* a tracked instance.
C4_Witness ==
  \E t \in Workers :
    /\ th[t].op = "stop"
    /\ th[t].count = 1
    /\ th[t].pc = "done"
    /\ th[t].ok
    /\ th[t].rid # 0

\* C5: error_count never exceeds request_count, whatever the interleaving of
\* the invoke_function calls that update them.
C5_CounterOrdering ==
  \A r \in DOMAIN heap : heap[r].error_count <= heap[r].request_count

\* A step that lowers no instance's request_count.
C6_Step ==
  \A r \in (DOMAIN heap) \cap (DOMAIN heap') :
    heap'[r].request_count >= heap[r].request_count

\* C6: the request_count of an instance never decreases from one state to
\* the next, whatever the interleaving of the invoke_function calls.
C6_CounterMonotone == [][C6_Step]_vars

\* Some invoke_function call dispatched to r has not returned yet.
InFlight(r) ==
  \E t \in Threads :
    /\ th[t].op = "invoke"
    /\ th[t].rid = r
    /\ th[t].pc \in {"call", "rc_read", "rc_write", "ec_read", "ec_write"}

\* C7: once the calls dispatched to an instance have all returned, its
\* request_count is their number and its error_count the number of those
\* that ended with a status of 400 or more.
C7_AtomicStats ==
  \A r \in DOMAIN heap :
    ~InFlight(r) =>
       /\ heap[r].request_count = heap[r].calls
       /\ heap[r].error_count = heap[r].errors

RECURSIVE TotalCalls(_)
\* The dispatches made to the instances of S together.
TotalCalls(S) ==
  IF S = {} THEN 0
  ELSE LET r == CHOOSE x \in S : TRUE
       IN heap[r].calls + TotalCalls(S \ {r})

\* C8: one caller, a fixed fleet of K instances that all answer every probe:
\* after N dispatches each instance was selected floor(N/K) or ceil(N/K)
\* times.
C8_RoundRobinFair ==
  (driver = "fixed" /\ Quiescent) =>
    LET K == Cardinality(all_instances)
        N == TotalCalls(all_instances)
    IN \A r \in all_instances :
         heap[r].calls \in {N \div K, (N + K - 1) \div K}

\* C8 witness: a fleet of three has served five dispatches, so that some
\* instance was selected once and another twice.
C8_Witness ==
  /\ driver = "fixed"
  /\ Quiescent
  /\ Cardinality(all_instances) = 3
  /\ TotalCalls(all_instances) = 5
  /\ \E r \in all_instances : heap[r].calls = 1
  /\ \E r \in all_instances : heap[r].calls = 2

\* C9: no two tracked instances have the same port.
C9_PortUnique ==
  \A r1 \in all_instances, r2 \in all_instances :
    r1 # r2 => heap[r1].port # heap[r2].port

\* The autoscaler tick that started at t0 found fn outside its hysteresis
\* interval.
HysteresisOver(fn, t0) ==
  fn \in DOMAIN load_balancer =>
    t0 - load_balancer[fn].last_scale_event >= MinScaleInterval

\* C10: when an autoscaler tick that ran with nothing else going on, and
\* outside the hysteresis interval of fn, has ended, fn has at least
\* min_instances instances.
C10_LowerBound ==
  \A fn \in DOMAIN functions :
    (/\ driver = "serial"
     /\ th[Scaler].op = "scale"
     /\ th[Scaler].pc = "done"
     /\ HysteresisOver(fn, th[Scaler].t0))
    => InstanceCount(fn) >= functions[fn].min_instances

\* A step of an invoke_function call for a name that is not registered: the
\* call ends at once with 404 and without an instance, and neither it nor
\* its return touches the registry, the indices, the executors or a counter.
C11_Step ==
  \A t \in Workers :
    /\ (th[t].op = "idle" /\ th'[t].op = "invoke" /\ th'[t].fn \notin DOMAIN functions) =>
         /\ th'[t].pc = "done"
         /\ th'[t].code = 404
         /\ th'[t].rid = 0
         /\ UNCHANGED <<functions, load_balancer, all_instances, heap,
                        proc_instances, cont_instances, up, uuid_calls>>
    /\ (th[t].op = "invoke" /\ th[t].pc = "done" /\ th[t].code = 404) =>
         UNCHANGED <<functions, load_balancer, all_instances, heap,
                     proc_instances, cont_instances, up, uuid_calls>>

\* C11: invoke_function on a name that is not in the registry returns 404
\* and leaves load_balancer, all_instances, both executors and every counter
\* as they were; no instance is provisioned and no load state is created.
C11_UnknownFunction == [][C11_Step]_vars

\* C11 witness: an invocation of an unregistered name has returned 404 while
\* an instance of another function is tracked.
C11_Witness ==
  \E t \in Workers :
    /\ th[t].op = "invoke"
    /\ th[t].pc = "done"
    /\ th[t].code = 404
    /\ th[t].fn \notin DOMAIN functions
    /\ all_instances # {}

(* ------------------- a function with max_instances = 0 ---------------- *)
\* The registry holds "f" and "z"; one caller, the autoscaler and the reaper
\* take turns.
InitZero == InitWith({"f", "z"}) /\ driver = "serial"

NextZero ==
  \/ \E t \in Workers : StartBegin(t)
  \/ \E t \in Threads : WarmNext(t)
  \/ \E t \in Threads : WarmLoop(t)
  \/ \E t \in Workers, fn \in {"f", "z"} : InvokeStart(t, fn)
  \/ \E t \in Threads : InvokeProbe(t)
  \/ \E t \in Threads : InvokeWait(t)
  \/ \E t \in Threads : CreateExec(t)
  \/ \E t \in Threads : CreateRegister(t)
  \/ \E t \in Threads : InvokeCall(t)
  \/ \E t \in Threads : InvokeReadRequestCount(t)
  \/ \E t \in Threads : InvokeWriteRequestCount(t)
  \/ \E t \in Threads : InvokeReadErrorCount(t)
  \/ \E t \in Threads : InvokeWriteErrorCount(t)
  \/ \E t \in Threads : Return(t)
  \/ \E t \in Threads : ScaleStart(t)
  \/ \E t \in Threads : ScaleEval(t)
  \/ \E t \in Threads : ScaleDown(t)
  \/ \E t \in Threads : ScaleMark(t)
  \/ \E t \in Threads : StopExec(t)
  \/ \E t \in Threads : StopUntrack(t)
  \/ \E t \in Threads : StopStore(t)
  \/ \E r \in 1..(2 * MaxCreates) : EnvDown(r)
  \/ \E r \in 1..(2 * MaxCreates) : EnvUp(r)
  \/ Advance

SpecZero == InitZero /\ [][NextZero]_vars

\* An invoke_function call for a function with max_instances = 0 and
\* min_instances = 0 is running on thread t.
ZeroCall(t) ==
  /\ th[t].op = "invoke"
  /\ th[t].cfg # NoConfig
  /\ th[t].cfg.max_instances = 0
  /\ th[t].cfg.min_instances = 0

\* C12: an invoke_function call for a function with max_instances = 0 (and
\* min_instances = 0) never provisions or reaches an instance and, when it
\* ends, answers 500; no instance of such a function exists at any time.
C12_MaxZero ==
  /\ \A t \in Workers :
       ZeroCall(t) =>
         /\ th[t].pc \in {"probe", "wait", "done"}
         /\ th[t].rid = 0
         /\ th[t].pc = "done" => th[t].code = 500
  /\ \A fn \in DOMAIN functions :
       (functions[fn].max_instances = 0 /\ functions[fn].min_instances = 0) =>
          ~Remains(fn)

\* C12 witness: the call for "z" has given up after its admission wait while
\* an instance of "f" is tracked.
C12_Witness ==
  \E t \in Workers :
    /\ ZeroCall(t)
    /\ th[t].pc = "done"
    /\ th[t].code = 500
    /\ all_instances # {}

(* ----------------------- warm_instance_ttl = 0 ------------------------ *)
\* The orchestrator configured with warm_instance_ttl = 0.
InitTtl ==
  /\ functions = [n \in FnNames |-> ConfigOf(n)]
  /\ load_balancer = <<>>
  /\ all_instances = {}
  /\ heap = <<>>
  /\ proc_instances = <<>>
  /\ cont_instances = <<>>
  /\ up = {}
  /\ unkillable = {}
  /\ now = StartTime
  /\ uuid_calls = 0
  /\ running = FALSE
  /\ th = [t \in Threads |-> IdleThread]
  /\ n_invokes = 0
  /\ ttl = 0
  /\ stopped = FALSE
  /\ function_code = [n \in DOMAIN functions |-> 1]
  /\ faas_cgroup = FALSE
  /\ cgroups = {}
  /\ temp_dirs = {}
  /\ alive = {}
  /\ InitOther
  /\ driver = "serial"

NextTtl ==
  \/ \E t \in Workers : StartBegin(t)
  \/ \E t \in Threads : WarmNext(t)
  \/ \E t \in Threads : WarmLoop(t)
  \/ \E t \in Workers, fn \in FnNames : InvokeStart(t, fn)
  \/ \E t \in Threads : InvokeProbe(t)
  \/ \E t \in Threads : InvokeWait(t)
  \/ \E t \in Threads : CreateExec(t)
  \/ \E t \in Threads : CreateRegister(t)
  \/ \E t \in Threads : InvokeCall(t)
  \/ \E t \in Threads : InvokeReadRequestCount(t)
  \/ \E t \in Threads : InvokeWriteRequestCount(t)
  \/ \E t \in Threads : InvokeReadErrorCount(t)
  \/ \E t \in Threads : InvokeWriteErrorCount(t)
  \/ \E t \in Threads : Return(t)
  \/ \E t \in Threads : ScaleStart(t)
  \/ \E t \in Threads : ScaleEval(t)
  \/ \E t \in Threads : ScaleDown(t)
  \/ \E t \in Threads : ScaleMark(t)
  \/ \E t \in Threads : StopExec(t)
  \/ \E t \in Threads : StopUntrack(t)
  \/ \E t \in Threads : StopStore(t)
  \/ \E t \in Threads : ReapStart(t)
  \/ \E t \in Threads : ReapProcess(t)
  \/ \E t \in Threads : ReapContainer(t)
  \/ \E t \in Threads : ReapScan(t)
  \/ \E t \in Threads : ReapLoop(t)
  \/ \E t \in Threads : ReapStore(t)
  \/ \E r \in 1..(2 * MaxCreates) : EnvDown(r)
  \/ \E r \in 1..(2 * MaxCreates) : EnvUp(r)
  \/ Advance

SpecTtl == InitTtl /\ [][NextTtl]_vars

\* The sandboxes an executor holds that were created before the present
\* clock reading.
OlderSandboxes ==
  {r \in DOMAIN proc_instances : proc_instances[r].last_used < now}
    \cup {r \in DOMAIN cont_instances : cont_instances[r].last_used < now}

\* C13: with warm_instance_ttl = 0, when a reaper tick that ran with nothing
\* else going on has ended, no sandbox created before the tick is left in
\* an executor, and all_instances and the load-balancer lists hold only
\* instances their executor still has.
C13_TtlZero ==
  (ttl = 0 /\ driver = "serial" /\ th[Reaper].op = "reap" /\ th[Reaper].pc = "done") =>
     /\ OlderSandboxes = {}
     /\ \A r \in all_instances \cup Listed : ExecutorHas(heap[r].execution_mode, r)

(* ---------------------- start() and the first calls ------------------- *)
\* One caller starts the orchestrator and then invokes; nothing else runs and
\* no time passes.
InitWarm == InitWith(FnNames) /\ driver = "single"

NextWarm ==
  \/ \E t \in Workers : StartBegin(t)
  \/ \E t \in Threads : WarmNext(t)
  \/ \E t \in Threads : WarmLoop(t)
  \/ \E t \in Workers, fn \in FnNames : InvokeStart(t, fn)
  \/ \E t \in Threads : InvokeProbe(t)
  \/ \E t \in Threads : InvokeWait(t)
  \/ \E t \in Threads : CreateExec(t)
  \/ \E t \in Threads : CreateRegister(t)
  \/ \E t \in Threads : InvokeCall(t)
  \/ \E t \in Threads : InvokeReadRequestCount(t)
  \/ \E t \in Threads : InvokeWriteRequestCount(t)
  \/ \E t \in Threads : InvokeReadErrorCount(t)
  \/ \E t \in Threads : InvokeWriteErrorCount(t)
  \/ \E t \in Threads : Return(t)

SpecWarm == InitWarm /\ [][NextWarm]_vars

\* The step by which the first invoke_function call after start(), for a
\* function whose pre-warm produced its min_instances >= 1 instances, leaves
\* its probe: it goes on to call one of those instances, and draws no uuid.
C14_Step ==
  \A t \in Workers :
    (/\ th[t].op = "invoke"
     /\ th[t].pc = "probe"
     /\ th'[t].pc # "probe"
     /\ n_invokes = 1
     /\ th[t].cfg.min_instances >= 1
     /\ InstanceCount(th[t].fn) >= th[t].cfg.min_instances)
    => /\ th'[t].pc = "call"
       /\ th'[t].rid \in Range(load_balancer[th[t].fn].instances)

\* C14: an invoke_function call issued right after start(), for a function
\* with min_instances >= 1 whose pre-warm succeeded, is dispatched to a
\* pre-warmed instance and provisions no new one.
C14_PreWarmReuse == [][C14_Step]_vars

\* A step that completes a registration or a delete-function request: after
\* register(name) the registry answers get(name) with the config and the
\* request reports created (201); after delete(name) it answers not found,
\* and the request reports deleted (200) if the name was registered and not
\* found (404) if it was not.
C15_Step ==
  \A t \in Workers :
    \A fn \in Range(FnOrder) :
      /\ (th[t].op = "idle" /\ th'[t].op = "register" /\ th'[t].fn = fn) =>
           /\ th'[t].code = 201
           /\ (GetFunction(fn))' = ConfigOf(fn)
      /\ (th[t].op = "delete" /\ th[t].fn = fn /\ th[t].pc # "done" /\ th'[t].pc = "done") =>
           /\ (GetFunction(fn))' = NoConfig
           /\ th'[t].code = IF GetFunction(fn) # NoConfig THEN 200 ELSE 404

\* C15: register, get, delete, get on a name yields created, present,
\* deleted, not found; deleting a name that is not registered reports not
\* found.
C15_RegistryRoundTrip == [][C15_Step]_vars

\* C15 witness: the deletion of "g" has been reported as done and the
\* registry, which still has "f", no longer answers for "g".
C15_Witness ==
  \E t \in Workers :
    /\ th[t].op = "delete"
    /\ th[t].pc = "done"
    /\ th[t].code = 200
    /\ GetFunction(th[t].fn) = NoConfig
    /\ Len(ListFunctions) = 1
    /\ ListFunctions[1] = "f"

\* C16: an invoke_function call whose handler ran longer than the function's
\* configured timeout returns 408, and is counted as an error of the
\* instance that served it.
C16_FunctionTimeout ==
  \A t \in Workers :
    (th[t].op = "invoke" /\ th[t].out = "function_timeout") =>
       /\ th[t].code = 408
       /\ heap[th[t].rid].errors >= 1

(* ------------------------- the autoscaler at rest ---------------------- *)
\* The orchestrator serving "f" alone.
InitIdle == InitWith({"f"}) /\ driver = "serial"

\* The orchestrator with its autoscaler thread, which _scale_loop keeps
\* ticking for as long as the orchestrator runs.
NextIdle ==
  \/ \E t \in Workers : StartBegin(t)
  \/ \E t \in Threads : WarmNext(t)
  \/ \E t \in Threads : WarmLoop(t)
  \/ \E t \in Workers, fn \in FnNames : InvokeStart(t, fn)
  \/ \E t \in Threads : InvokeProbe(t)
  \/ \E t \in Threads : InvokeWait(t)
  \/ \E t \in Threads : CreateExec(t)
  \/ \E t \in Threads : CreateRegister(t)
  \/ \E t \in Threads : InvokeCall(t)
  \/ \E t \in Threads : InvokeReadRequestCount(t)
  \/ \E t \in Threads : InvokeWriteRequestCount(t)
  \/ \E t \in Threads : InvokeReadErrorCount(t)
  \/ \E t \in Threads : InvokeWriteErrorCount(t)
  \/ \E t \in Threads : Return(t)
  \/ \E t \in Threads : ScaleStart(t)
  \/ \E t \in Threads : ScaleEval(t)
  \/ \E t \in Threads : ScaleDown(t)
  \/ \E t \in Threads : ScaleMark(t)
  \/ \E t \in Threads : StopExec(t)
  \/ \E t \in Threads : StopUntrack(t)
  \/ \E t \in Threads : StopStore(t)
  \/ \E r \in 1..(2 * MaxCreates) : EnvDown(r)
  \/ \E r \in 1..(2 * MaxCreates) : EnvUp(r)
  \/ Advance

\* A step of the autoscaler thread: `while self.running` around
\* _check_and_scale_functions never ends, so the thread is not starved.
ScalerStep ==
  \/ ScaleStart(Scaler)
  \/ ScaleEval(Scaler)
  \/ ScaleDown(Scaler)
  \/ ScaleMark(Scaler)
  \/ CreateExec(Scaler)
  \/ CreateRegister(Scaler)
  \/ StopExec(Scaler)
  \/ StopUntrack(Scaler)
  \/ StopStore(Scaler)
  \/ Return(Scaler)

SpecIdle == InitIdle /\ [][NextIdle]_vars /\ WF_vars(ScalerStep)

\* fn's instances are all healthy and no invocation is under way.
HealthyAndIdle(fn) ==
  /\ fn \in DOMAIN functions
  /\ fn \in DOMAIN load_balancer
  /\ \A t \in Workers : th[t].op = "idle"
  /\ Len(HealthyInstances(fn)) = Len(load_balancer[fn].instances)

\* Between two autoscaler ticks fn has more instances than min_instances,
\* with invocations stopped, all instances healthy, and the hysteresis
\* interval since the last scaling event over.
IdleSurplus(fn) ==
  /\ Quiescent
  /\ HealthyAndIdle(fn)
  /\ InstanceCount(fn) > functions[fn].min_instances
  /\ now - load_balancer[fn].last_scale_event >= MinScaleInterval

\* C17: from the moment a function has more than min_instances instances,
\* all healthy and idle and past hysteresis, the ticking autoscaler brings
\* the count down to min_instances, unless an instance stops being healthy
\* or an invocation arrives first.
C17_AutoscaleDown ==
  \A fn \in FnNames :
    IdleSurplus(fn) ~>
      (\/ ~HealthyAndIdle(fn)
       \/ InstanceCount(fn) <= functions[fn].min_instances)

(* ----------------- stop racing invoke on the last instance ------------ *)
\* The orchestrator serving "g" with its single instance, which answers;
\* requests are handled by concurrent worker threads.
InitRace ==
  /\ now = StartTime
  /\ functions = [n \in {"g"} |-> ConfigOf(n)]
  /\ load_balancer = [n \in {"g"} |-> [NewLoadState EXCEPT !.instances = <<2>>]]
  /\ all_instances = {2}
  /\ heap = [r \in {2} |-> NewInstance("g", ConfigOf("g").execution_mode, PortBase)]
  /\ proc_instances = <<>>
  /\ cont_instances = [r \in {2} |-> ExecutorRecord("g", PortBase, 1)]
  /\ up = {2}
  /\ unkillable = {}
  /\ uuid_calls = 2
  /\ running = TRUE
  /\ th = [t \in Threads |-> IdleThread]
  /\ n_invokes = 0
  /\ driver = "concurrent"
  /\ ttl = WarmInstanceTtl
  /\ stopped = FALSE
  /\ function_code = [n \in DOMAIN functions |-> 1]
  /\ faas_cgroup = FALSE
  /\ cgroups = {}
  /\ temp_dirs = {}
  /\ alive = {}
  /\ InitOther

\* One thread serves DELETE /instances/<id>, the other POST /invoke/<name>.
NextRace ==
  \/ \E r \in 0..(2 * MaxCreates) : StopStart("w1", r)
  \/ \E t \in Threads : StopExec(t)
  \/ \E t \in Threads : StopUntrack(t)
  \/ \E t \in Threads : StopStore(t)
  \/ \E fn \in FnNames : InvokeStart("w2", fn)
  \/ \E t \in Threads : InvokeProbe(t)
  \/ \E t \in Threads : InvokeWait(t)
  \/ \E t \in Threads : CreateExec(t)
  \/ \E t \in Threads : CreateRegister(t)
  \/ \E t \in Threads : InvokeCall(t)
  \/ \E t \in Threads : InvokeReadRequestCount(t)
  \/ \E t \in Threads : InvokeWriteRequestCount(t)
  \/ \E t \in Threads : InvokeReadErrorCount(t)
  \/ \E t \in Threads : InvokeWriteErrorCount(t)
  \/ \E t \in Threads : Return(t)

SpecRace == InitRace /\ [][NextRace]_vars

\* A stop has returned, no invocation is under way, and the instance the
\* stop was for is gone from both indices and from both executors.
StoppedIsGone ==
  \A t \in Workers :
    (/\ th[t].op = "stop"
     /\ th[t].pc = "done"
     /\ th[t].rid # 0
     /\ \A u \in Workers : th[u].op = "invoke" => th[u].pc = "done")
    => /\ th[t].rid \notin all_instances
       /\ th[t].rid \notin Listed
       /\ th[t].rid \notin DOMAIN proc_instances
       /\ th[t].rid \notin DOMAIN cont_instances

\* A step of the two racing requests: an invocation that ends was dispatched
\* to an instance (whose answer, 503 when the instance had been stopped, it
\* returns) or failed to provision a replacement; and once both requests are
\* through, the stopped instance is gone.
C18_Step ==
  /\ \A t \in Workers :
       (th[t].op = "invoke" /\ th[t].pc # "done" /\ th'[t].pc = "done" /\ th'[t].code # 404) =>
          \/ th'[t].rid # 0
          \/ th[t].pc = "create"
  /\ StoppedIsGone'

\* C18: with _stop_function_instance and invoke_function running
\* concurrently on the only instance of a function, the invocation returns
\* the 503 of the stopped instance or is served by a newly provisioned
\* replacement, and after both the stopped instance is in neither index nor
\* in its executor.
C18_StopRacingInvoke == [][C18_Step]_vars

\* A step of an invocation that reached an instance: the call step maps the
\* outcome to the status, the statistics steps add one to request_count and,
\* exactly for a status of 400 or more, one to error_count, and the status
\* is returned as it was mapped.
C19_Step ==
  \A t \in Workers :
    /\ (th[t].pc = "call" /\ th'[t].pc = "rc_read") =>
         th'[t].code = CASE th'[t].out = "client_timeout" -> 408
                         [] th'[t].out = "refused" -> 503
                         [] th'[t].out = "client_error" -> 500
                         [] OTHER -> SandboxStatus(th'[t].out)
    /\ (th[t].pc = "rc_write" /\ th'[t].pc # "rc_write") =>
         /\ heap'[th[t].rid].request_count = heap[th[t].rid].request_count + 1
         /\ th'[t].code = th[t].code
         /\ (th'[t].pc = "ec_read") = (th[t].code >= 400)
         /\ th'[t].pc \in {"ec_read", "done"}
    /\ (th[t].pc = "ec_write" /\ th'[t].pc # "ec_write") =>
         /\ heap'[th[t].rid].error_count = heap[th[t].rid].error_count + 1
         /\ th'[t].code = th[t].code
         /\ th'[t].pc = "done"

\* C19: an invocation that reached an instance returns 408 on a client
\* timeout, 503 on a refused connection, 500 on another client error and
\* otherwise the instance's own status; in each case request_count goes up
\* by one, and error_count goes up by one exactly when the status is 400 or
\* more.
C19_ErrorMapping == [][C19_Step]_vars

(* ------------------------------ shutdown ------------------------------ *)
\* FaaSOrchestrator.stop, lines 256-262: the flag is cleared, the autoscaler
\* is told to stop, the ids of all_instances are listed.  It is called by the
\* signal handler (main.py 220-224) and by the gateway's teardown hook
\* (api_gateway.py 156-160), while the server goes on accepting requests.
ShutdownBegin(t) ==
  /\ Sched(t)
  /\ Serving
  /\ t \in Workers
  /\ th[t].op = "idle"
  /\ running' = FALSE
  /\ stopped' = TRUE
  /\ th' = [th EXCEPT ![t] =
              [IdleThread EXCEPT !.op = "shutdown", !.pc = "shut_loop",
                                 !.todo = SortedSeq(all_instances)]]
  /\ UNCHANGED <<functions, load_balancer, all_instances, heap, proc_instances, cont_instances, up, unkillable, now, uuid_calls, n_invokes, driver, os_environ, sandbox_env, clients, allowed, ttl,
                 function_code, faas_cgroup, cgroups, temp_dirs, alive>>

\* Lines 263-264: _stop_function_instance for the next listed id.
ShutdownLoop(t) ==
  /\ Sched(t)
  /\ th[t].pc = "shut_loop"
  /\ LET rec == th[t]
     IN th' = [th EXCEPT ![t] =
          IF rec.todo # <<>>
          THEN [rec EXCEPT !.pc = "stop_exec", !.rid = Head(rec.todo),
                           !.todo = Tail(rec.todo), !.ret = "shut_loop"]
          ELSE [rec EXCEPT !.pc = "shut_exec", !.rid = 0, !.ok = FALSE]]
  /\ UNCHANGED <<functions, load_balancer, all_instances, heap, proc_instances, cont_instances, up, unkillable, now, uuid_calls, running, n_invokes, driver, os_environ, sandbox_env, clients, allowed, ttl, stopped,
                 function_code, faas_cgroup, cgroups, temp_dirs, alive>>

\* Lines 267-268: both executors' shutdown(), each of which calls
\* stop_instance for every sandbox it still holds.
ShutdownExecutors(t) ==
  /\ Sched(t)
  /\ th[t].pc = "shut_exec"
  /\ LET gone_p == {r \in DOMAIN proc_instances : StopInstanceResult("process", r)}
         gone_c == {r \in DOMAIN cont_instances : StopInstanceResult("container", r)}
     IN /\ proc_instances' = [r \in (DOMAIN proc_instances) \ gone_p |-> proc_instances[r]]
        /\ cont_instances' = [r \in (DOMAIN cont_instances) \ gone_c |-> cont_instances[r]]
        /\ up' = up \ (gone_p \cup gone_c)
  /\ th' = [th EXCEPT ![t] = Done(th[t], 0)]
  /\ UNCHANGED <<functions, load_balancer, all_instances, heap, unkillable, now, uuid_calls, running, n_invokes, driver, os_environ, sandbox_env, clients, allowed, ttl, stopped,
                 function_code, faas_cgroup, cgroups, temp_dirs, alive>>

\* The orchestrator from construction to stop(), one request at a time.
NextStop ==
  \/ \E t \in Workers : StartBegin(t)
  \/ \E t \in Threads : WarmNext(t)
  \/ \E t \in Threads : WarmLoop(t)
  \/ \E t \in Workers, fn \in {"f", "z"} : InvokeStart(t, fn)
  \/ \E t \in Threads : InvokeProbe(t)
  \/ \E t \in Threads : InvokeWait(t)
  \/ \E t \in Threads : CreateExec(t)
  \/ \E t \in Threads : CreateRegister(t)
  \/ \E t \in Threads : InvokeCall(t)
  \/ \E t \in Threads : InvokeReadRequestCount(t)
  \/ \E t \in Threads : InvokeWriteRequestCount(t)
  \/ \E t \in Threads : InvokeReadErrorCount(t)
  \/ \E t \in Threads : InvokeWriteErrorCount(t)
  \/ \E t \in Threads : Return(t)
  \/ \E t \in Workers : ShutdownBegin(t)
  \/ \E t \in Threads : ShutdownLoop(t)
  \/ \E t \in Threads : ShutdownExecutors(t)
  \/ \E t \in Threads : StopExec(t)
  \/ \E t \in Threads : StopUntrack(t)
  \/ \E t \in Threads : StopStore(t)
  \/ \E r \in 1..(2 * MaxCreates) : EnvDown(r)
  \/ \E r \in 1..(2 * MaxCreates) : EnvUp(r)

SpecStop == InitZero /\ [][NextStop]_vars

\* C20: after stop() has cleared the running flag and returned, an
\* invoke_function call that arrives is refused: it is not dispatched to an
\* instance and provisions none.
C20_RefuseAfterStop ==
  \A t \in Workers :
    (stopped /\ ~running /\ th[t].op = "invoke") => th[t].rid = 0

(* --------------------- the executors and their sandboxes -------------- *)
\* ProcessExecutor.create_instance, process_executor.py 259-346, as called
\* for function fn: the attempt succeeds, or fails at mkdtemp, at Popen, or
\* because the child has exited by the time it is polled.  The except clause
\* removes the temporary directory and nothing else.
ProcessCreateInstance(t, fn) ==
  /\ Sched(t)
  /\ t \in Workers
  /\ th[t].op = "idle"
  /\ uuid_calls + 1 <= MaxCreates
  /\ uuid_calls' = uuid_calls + 1
  /\ LET id == uuid_calls + 1
     IN \E port \in Ports, fail \in {"none", "mkdtemp", "popen", "exited"},
           ready \in BOOLEAN, killable \in BOOLEAN :
          /\ fail # "none" => (~ready /\ killable)
          /\ temp_dirs' = IF fail = "none" THEN temp_dirs \cup {id} ELSE temp_dirs
          /\ cgroups' = IF faas_cgroup /\ fail # "mkdtemp"
                        THEN cgroups \cup {id} ELSE cgroups
          /\ alive' = IF fail = "none" THEN alive \cup {id} ELSE alive
          /\ proc_instances' = IF fail = "none"
                               THEN Put(proc_instances, id, ExecutorRecord(fn, port, 0))
                               ELSE proc_instances
          /\ up' = IF fail = "none" /\ ready /\ ~Listening(port) THEN up \cup {id} ELSE up
          /\ unkillable' = IF killable THEN unkillable ELSE unkillable \cup {id}
          /\ th' = [th EXCEPT ![t] =
                      Done([IdleThread EXCEPT !.op = "create_instance", !.fn = fn, !.tmp = id,
                                              !.rid = IF fail = "none" THEN id ELSE 0,
                                              !.ok = (fail = "none")], 0)]
  /\ UNCHANGED <<functions, load_balancer, all_instances, heap, cont_instances, now, running,
                 n_invokes, driver, os_environ, sandbox_env, clients, allowed, ttl, stopped, function_code, faas_cgroup>>

\* ContainerExecutor.create_instance, container_executor.py 215-298: the
\* attempt succeeds, or fails when the image cannot be built, when `docker
\* run` exits with an error (with or without a container left behind), or
\* when the container is not running within 30 s; only in the last case is
\* there a container_id to clean up, and _cleanup_container swallows the
\* errors of `docker stop` and `docker rm`.
ContainerCreateInstance(t, fn) ==
  /\ Sched(t)
  /\ t \in Workers
  /\ th[t].op = "idle"
  /\ uuid_calls + 1 <= MaxCreates
  /\ uuid_calls' = uuid_calls + 1
  /\ LET id == uuid_calls + 1
     IN \E port \in Ports, fail \in {"none", "image", "run", "not_ready"},
           left \in BOOLEAN, ready \in BOOLEAN :
          /\ fail = "none" => (CanStart("container", port) /\ ~left)
          /\ fail = "image" => ~left
          /\ fail # "none" => ~ready
          /\ alive' = IF fail = "none" \/ left THEN alive \cup {id} ELSE alive
          /\ cont_instances' = IF fail = "none"
                               THEN Put(cont_instances, id, ExecutorRecord(fn, port, 0))
                               ELSE cont_instances
          /\ up' = IF fail = "none" /\ ready THEN up \cup {id} ELSE up
          /\ th' = [th EXCEPT ![t] =
                      Done([IdleThread EXCEPT !.op = "create_instance", !.fn = fn, !.tmp = id,
                                              !.rid = IF fail = "none" THEN id ELSE 0,
                                              !.ok = (fail = "none")], 0)]
  /\ UNCHANGED <<functions, load_balancer, all_instances, heap, proc_instances, unkillable, now,
                 running, n_invokes, driver, os_environ, sandbox_env, clients, allowed, ttl, stopped, function_code, faas_cgroup,
                 cgroups, temp_dirs>>

\* ProcessExecutor.stop_instance, process_executor.py 352-387: False for an
\* id without a record and when terminate()/kill() raise; otherwise the child
\* is ended, the cgroup is removed unless cleanup_cgroup fails (it logs the
\* error and returns), the temporary directory is removed and the record is
\* deleted.
ProcessStopInstance(t, r) ==
  /\ Sched(t)
  /\ t \in Workers
  /\ th[t].op = "idle"
  /\ LET ok == StopInstanceResult("process", r)
     IN /\ \E cgroup_removed \in BOOLEAN :
             /\ ~ok => cgroup_removed
             /\ proc_instances' = IF ok THEN Remove(proc_instances, r) ELSE proc_instances
             /\ alive' = IF ok THEN alive \ {r} ELSE alive
             /\ up' = IF ok THEN up \ {r} ELSE up
             /\ cgroups' = IF ok /\ cgroup_removed THEN cgroups \ {r} ELSE cgroups
             /\ temp_dirs' = IF ok THEN temp_dirs \ {r} ELSE temp_dirs
        /\ th' = [th EXCEPT ![t] =
                    Done([IdleThread EXCEPT !.op = "stop_instance", !.tmp = r, !.ok = ok,
                                            !.fn = IF r \in DOMAIN proc_instances
                                                   THEN "known" ELSE "unknown"], 0)]
  /\ UNCHANGED <<functions, load_balancer, all_instances, heap, cont_instances, unkillable, now,
                 uuid_calls, running, n_invokes, driver, os_environ, sandbox_env, clients, allowed, ttl, stopped, function_code,
                 faas_cgroup>>

\* ContainerExecutor.stop_instance, container_executor.py 342-357, with
\* _cleanup_container (359-372), which catches whatever `docker stop` and
\* `docker rm` raise and does not look at their exit codes.
ContainerStopInstance(t, r) ==
  /\ Sched(t)
  /\ t \in Workers
  /\ th[t].op = "idle"
  /\ LET ok == StopInstanceResult("container", r)
     IN /\ \E cleaned \in BOOLEAN :
             /\ ~ok => cleaned
             /\ cont_instances' = IF ok THEN Remove(cont_instances, r) ELSE cont_instances
             /\ alive' = IF ok /\ cleaned THEN alive \ {r} ELSE alive
             /\ up' = IF ok /\ cleaned THEN up \ {r} ELSE up
        /\ th' = [th EXCEPT ![t] =
                    Done([IdleThread EXCEPT !.op = "stop_instance", !.tmp = r, !.ok = ok,
                                            !.fn = IF r \in DOMAIN cont_instances
                                                   THEN "known" ELSE "unknown"], 0)]
  /\ UNCHANGED <<functions, load_balancer, all_instances, heap, proc_instances, unkillable, now,
                 uuid_calls, running, n_invokes, driver, os_environ, sandbox_env, clients, allowed, ttl, stopped, function_code,
                 faas_cgroup, cgroups, temp_dirs>>

\* The two executors as constructed, with or without a usable cgroup root
\* (_setup_cgroups, process_executor.py 55-66).
InitExec ==
  /\ functions = [n \in FnNames |-> ConfigOf(n)]
  /\ load_balancer = <<>>
  /\ all_instances = {}
  /\ heap = <<>>
  /\ proc_instances = <<>>
  /\ cont_instances = <<>>
  /\ up = {}
  /\ unkillable = {}
  /\ now = StartTime
  /\ uuid_calls = 0
  /\ running = FALSE
  /\ th = [t \in Threads |-> IdleThread]
  /\ n_invokes = 0
  /\ driver = "serial"
  /\ ttl = WarmInstanceTtl
  /\ stopped = FALSE
  /\ function_code = [n \in FnNames |-> 1]
  /\ faas_cgroup \in BOOLEAN
  /\ cgroups = {}
  /\ temp_dirs = {}
  /\ alive = {}
  /\ InitOther

\* The executors' operations, called one after another.
NextExec ==
  \/ \E t \in Workers : ProcessCreateInstance(t, "f")
  \/ \E t \in Workers : ContainerCreateInstance(t, "g")
  \/ \E t \in Workers, r \in 1..(2 * MaxCreates) : ProcessStopInstance(t, r)
  \/ \E t \in Workers, r \in 1..(2 * MaxCreates) : ContainerStopInstance(t, r)
  \/ \E t \in Threads : Return(t)

SpecExec == InitExec /\ [][NextExec]_vars

\* C21: executor.stop_instance(runtime_id) returns False only for an id the
\* executor has no record of; for an id it knows it returns True, and on
\* return the record, the process or container, the cgroup and the
\* temporary directory of that instance are gone.
C21_StopResult ==
  \A t \in Workers :
    (th[t].op = "stop_instance" /\ th[t].pc = "done") =>
       /\ ~th[t].ok => th[t].fn = "unknown"
       /\ th[t].fn = "known" =>
            /\ th[t].ok
            /\ th[t].tmp \notin (DOMAIN proc_instances) \cup (DOMAIN cont_instances)
            /\ th[t].tmp \notin alive \cup cgroups \cup temp_dirs

\* C22: when executor.create_instance has failed, the executor holds no
\* record for the attempt and nothing the attempt allocated is left: no
\* temporary directory, no cgroup, no process or container.
C22_CreateFailureCleanup ==
  \A t \in Workers :
    (th[t].op = "create_instance" /\ th[t].pc = "done" /\ ~th[t].ok) =>
       /\ th[t].tmp \notin (DOMAIN proc_instances) \cup (DOMAIN cont_instances)
       /\ th[t].tmp \notin alive \cup cgroups \cup temp_dirs

(* --------------------------- update_function -------------------------- *)
\* The `config` objects a PUT /functions/<name> body carries: (key, value)
\* pairs over a field FunctionConfig defines and one it does not.
ConfigData ==
  SUBSET {<<"max_instances", 3>>, <<"colour", 1>>}

\* hasattr(existing_config, key)
HasAttr(cfg, key) == key \in DOMAIN cfg

\* Lines 297-301: setattr for every key the FunctionConfig has.
ApplyConfig(cfg, config_data) ==
  [k \in DOMAIN cfg |->
     IF \E p \in config_data : p[1] = k /\ HasAttr(cfg, k)
     THEN (CHOOSE p \in config_data : p[1] = k)[2]
     ELSE cfg[k]]

\* update_function, api_gateway.py 278-307, for a body with or without
\* `code` (0: without) and with or without `config`.
UpdateFunction(t, fn, code, has_config, config_data) ==
  /\ Sched(t)
  /\ Serving
  /\ t \in Workers
  /\ th[t].op = "idle"
  /\ ~has_config => config_data = {}
  /\ LET rec == [IdleThread EXCEPT !.op = "update", !.fn = fn,
                                   !.ok = \E p \in config_data : ~HasAttr(NoConfig, p[1])]
     IN IF code = 0 /\ ~has_config
        THEN /\ th' = [th EXCEPT ![t] = Done(rec, 400)]
             /\ UNCHANGED <<functions, function_code>>
        ELSE IF GetFunction(fn) = NoConfig
        THEN /\ th' = [th EXCEPT ![t] = Done(rec, 404)]
             /\ UNCHANGED <<functions, function_code>>
        ELSE /\ function_code' = IF code # 0 THEN Put(function_code, fn, code) ELSE function_code
             /\ functions' = [functions EXCEPT ![fn] = ApplyConfig(@, config_data)]
             /\ th' = [th EXCEPT ![t] = Done(rec, 200)]
  /\ UNCHANGED <<load_balancer, all_instances, heap, proc_instances, cont_instances, up,
                 unkillable, now, uuid_calls, running, n_invokes, driver, os_environ, sandbox_env, clients, allowed, ttl, stopped,
                 faas_cgroup, cgroups, temp_dirs, alive>>

\* The registry's requests next to start(), one at a time.
NextUpdate ==
  \/ \E t \in Workers : StartBegin(t)
  \/ \E t \in Threads : WarmNext(t)
  \/ \E t \in Threads : WarmLoop(t)
  \/ \E t \in Threads : CreateExec(t)
  \/ \E t \in Threads : CreateRegister(t)
  \/ \E t \in Workers, fn \in FnNames, code \in {0, 2}, has_config \in BOOLEAN,
        config_data \in ConfigData : UpdateFunction(t, fn, code, has_config, config_data)
  \/ \E t \in Workers, fn \in FnNames : RegisterFunction(t, fn)
  \/ \E t \in Workers, fn \in FnNames : DeleteStart(t, fn)
  \/ \E t \in Threads : DeleteLoop(t)
  \/ \E t \in Threads : StopExec(t)
  \/ \E t \in Threads : StopUntrack(t)
  \/ \E t \in Threads : StopStore(t)
  \/ \E t \in Threads : Return(t)

SpecUpdate == Init /\ [][NextUpdate]_vars

\* A step that serves an update of a registered function whose config has a
\* field FunctionConfig does not define: it answers 400 and leaves the
\* stored config and code as they were.
C23_Step ==
  \A t \in Workers :
    (/\ th[t].op = "idle"
     /\ th'[t].op = "update"
     /\ th'[t].ok
     /\ GetFunction(th'[t].fn) # NoConfig)
    => /\ th'[t].code = 400
       /\ UNCHANGED <<functions, function_code>>

\* C23: an update of an existing function whose config contains a field
\* that FunctionConfig does not define is rejected with 400 and changes
\* neither the stored FunctionConfig nor the stored code.
C23_InvalidConfigUpdate == [][C23_Step]_vars

\* A step of cleanup_expired_instances: an instance it stops (its record
\* leaves the executor) has not served an invocation during the last
\* warm_instance_ttl seconds.
C24_Step ==
  \A r \in (DOMAIN proc_instances) \cup (DOMAIN cont_instances) :
    (/\ th[Reaper].pc \in {"reap_proc", "reap_cont"}
     /\ r \notin (DOMAIN proc_instances') \cup (DOMAIN cont_instances')
     /\ r \in DOMAIN heap
     /\ heap[r].request_count > 0)
    => now - heap[r].last_used >= ttl

\* C24: the reaper never stops an instance that served an invocation less
\* than warm_instance_ttl seconds ago: the last_used it compares with the
\* TTL is the time of the instance's most recent invocation.
C24_IdleEviction == [][C24_Step]_vars

\* A step of an invoke_function call: it probes once; from the probe it goes
\* on to provision only when no instance of the function answered and fewer
\* than max_instances were tracked, and otherwise selects one of the
\* instances that answered without provisioning; it enters provisioning from
\* the probe alone, and what it adds to the indices is the one instance it
\* provisioned.
C25_Step ==
  \A t \in Workers :
    (th[t].op = "invoke" /\ th'[t] # th[t]) =>
      /\ (th[t].pc = "probe" /\ th'[t].pc # "probe") =>
           LET healthy == IF th[t].fn \in DOMAIN load_balancer
                          THEN HealthyInstances(th[t].fn) ELSE <<>>
           IN /\ th'[t].pc = "create" =>
                   /\ healthy = <<>>
                   /\ InstanceCount(th[t].fn) < th[t].cfg.max_instances
              /\ healthy # <<>> =>
                   /\ th'[t].pc = "call"
                   /\ th'[t].rid \in Range(healthy)
              /\ UNCHANGED <<uuid_calls, all_instances, proc_instances, cont_instances>>
      /\ th'[t].pc = "create" => th[t].pc \in {"probe", "create"}
      /\ th'[t].pc = "probe" => th[t].pc = "probe"
      /\ uuid_calls' # uuid_calls => th[t].pc = "create"
      /\ all_instances' # all_instances =>
           /\ th[t].pc = "register"
           /\ all_instances' = all_instances \cup {th[t].rid}
           /\ th'[t].pc = "call"

\* C25: one invoke_function call provisions at most one instance, and only
\* if at its probe no instance of the function was available and fewer than
\* max_instances were tracked; if an instance was available it is selected
\* and nothing is provisioned.
C25_DispatchDecision == [][C25_Step]_vars

\* C25 witness: an invocation of "f" found the one tracked instance not
\* answering and has provisioned a second one, about to be registered.
C25_Witness ==
  \E t \in Workers :
    /\ th[t].op = "invoke"
    /\ th[t].pc = "register"
    /\ th[t].fn = "f"
    /\ InstanceCount("f") = 1

(* ------------------- hysteresis of the autoscaler --------------------- *)
\* The autoscaler beside a running orchestrator whose sandboxes and clock move
\* while a tick is under way: _scale_up and _scale_down take time.
InitHyst == InitWith({"f"}) /\ driver = "concurrent"

NextHyst ==
  \/ \E t \in Workers : StartBegin(t)
  \/ \E t \in Threads : WarmNext(t)
  \/ \E t \in Threads : WarmLoop(t)
  \/ \E t \in Threads : CreateExec(t)
  \/ \E t \in Threads : CreateRegister(t)
  \/ \E t \in Threads : ScaleStart(t)
  \/ \E t \in Threads : ScaleEval(t)
  \/ \E t \in Threads : ScaleDown(t)
  \/ \E t \in Threads : ScaleMark(t)
  \/ \E t \in Threads : StopExec(t)
  \/ \E t \in Threads : StopUntrack(t)
  \/ \E t \in Threads : StopStore(t)
  \/ \E t \in Threads : Return(t)
  \/ \E r \in 1..(2 * MaxCreates) : EnvDown(r)
  \/ \E r \in 1..(2 * MaxCreates) : EnvUp(r)
  \/ Advance

SpecHyst == InitHyst /\ [][NextHyst]_vars

\* The autoscaler's _scale_up or _scale_down call for a function returns
\* having created or stopped an instance.
ScaleActed(fn) ==
  /\ th[Scaler].pc # "scale_mark"
  /\ th'[Scaler].pc = "scale_mark"
  /\ th'[Scaler].fn = fn
  /\ th'[Scaler].ok

C26_Step ==
  \A fn \in FnNames :
    /\ (ScaleActed(fn) /\ load_balancer[fn].last_scale_action > 0) =>
          now - load_balancer[fn].last_scale_action >= MinScaleInterval
    /\ ( /\ th[Scaler].pc = "scale_eval"
         /\ th[Scaler].fns # <<>>
         /\ Head(th[Scaler].fns) = fn
         /\ fn \in DOMAIN load_balancer
         /\ th[Scaler].t0 - load_balancer[fn].last_scale_event < MinScaleInterval
         /\ th'[Scaler] # th[Scaler] ) =>
          th'[Scaler].pc \notin {"create", "scale_down"}

\* C26: two scale actions of the autoscaler for one function are at least
\* MinScaleInterval seconds apart, and a tick that finds the function within
\* MinScaleInterval of its last_scale_event does nothing for it.
C26_Hysteresis == [][C26_Step]_vars

(* ---------------------- one tick of the autoscaler -------------------- *)
\* The autoscaler beside gateway threads that serve DELETE /instances/<id>.
NextTick ==
  \/ \E t \in Workers : StartBegin(t)
  \/ \E t \in Threads : WarmNext(t)
  \/ \E t \in Threads : WarmLoop(t)
  \/ \E t \in Threads : CreateExec(t)
  \/ \E t \in Threads : CreateRegister(t)
  \/ \E t \in Threads : ScaleStart(t)
  \/ \E t \in Threads : ScaleEval(t)
  \/ \E t \in Threads : ScaleDown(t)
  \/ \E t \in Threads : ScaleMark(t)
  \/ \E t \in Workers, r \in 1..(2 * MaxCreates) : StopStart(t, r)
  \/ \E t \in Threads : StopExec(t)
  \/ \E t \in Threads : StopUntrack(t)
  \/ \E t \in Threads : StopStore(t)
  \/ \E t \in Threads : Return(t)
  \/ \E r \in 1..(2 * MaxCreates) : EnvDown(r)
  \/ \E r \in 1..(2 * MaxCreates) : EnvUp(r)
  \/ Advance

SpecTick == InitHyst /\ [][NextTick]_vars

\* The function the autoscaler's tick is dealing with.
TickFn == th[Scaler].fn

C27_Step ==
  (th[Scaler].op = "scale" /\ th'[Scaler] # th[Scaler]) =>
     \* the tick turns to a function once
     /\ (th[Scaler].pc = "scale_eval" /\ th'[Scaler].pc \in {"create", "scale_down"}) =>
           Head(th[Scaler].fns) \notin Range(Tail(th[Scaler].fns))
     \* _scale_up starts a sandbox
     /\ (th[Scaler].pc = "create" /\ th'[Scaler].pc = "register") =>
           /\ InstanceCount(TickFn) > 0
           /\ InstanceCount(TickFn) < th[Scaler].cfg.max_instances
     \* _scale_down stops one
     /\ (th[Scaler].pc = "stop_exec" /\ th'[Scaler].pc = "stop_untrack") =>
           InstanceCount(TickFn) > th[Scaler].cfg.min_instances
     \* what the tick itself does to an instance list
     /\ \A fn \in FnNames :
          InstanceCount(fn)' # InstanceCount(fn) =>
             /\ fn = TickFn
             /\ InstanceCount(fn)' - InstanceCount(fn) \in {-1, 1}

\* C27: a tick of the autoscaler turns to each function once and changes its
\* instance count by at most one; it stops an instance only while the count
\* is above min_instances and provisions one only while the count is above
\* zero and below max_instances.
C27_AutoscalerBounds == [][C27_Step]_vars

(* --------------------- reconciliation of the tracking ----------------- *)
\* The reaper is in _cleanup_orphaned_tracking and takes a step.
InReconcile ==
  /\ th[Reaper].op = "reap"
  /\ th[Reaper].pc \in {"reap_scan", "reap_loop", "reap_store"}
  /\ th'[Reaper] # th[Reaper]

C28_Step ==
  InReconcile =>
    LET gone == all_instances \ all_instances'
    IN /\ all_instances' \subseteq all_instances
       /\ \A r \in gone : ~ExecutorHas(heap[r].execution_mode, r)
       /\ DOMAIN load_balancer' = DOMAIN load_balancer
       /\ \A fn \in DOMAIN load_balancer :
            load_balancer'[fn] =
              [load_balancer[fn] EXCEPT
                 !.instances = SelectSeq(@, LAMBDA x : x \notin gone)]
       /\ UNCHANGED <<functions, heap, proc_instances, cont_instances, up, unkillable,
                      alive, cgroups, temp_dirs, function_code>>
       /\ th'[Reaper].pc = "done" =>
            \A r \in all_instances' : (ExecutorHas(heap[r].execution_mode, r))'

\* C28: _cleanup_orphaned_tracking removes from both indices only ids whose
\* executor has no record of them and changes nothing else; when it has
\* completed, every id left in all_instances is known to its executor.
C28_Reconciliation == [][C28_Step]_vars

\* The reaper's tick has completed having removed the tracking of one
\* instance and kept that of another.
C28_Witness ==
  /\ th[Reaper].op = "reap"
  /\ th[Reaper].pc = "done"
  /\ th[Reaper].code = 0
  /\ \E r \in DOMAIN heap : r \notin all_instances
  /\ all_instances # {}

(* --------------------------- crashed sandboxes ------------------------ *)
\* The sandbox of r exits on its own: instance.process.poll() is no longer
\* None (the container is no longer running).  Nothing in the executors
\* looks at that outside create_instance and get_stats.
SandboxExits(r) ==
  /\ EnvSched
  /\ r \in (DOMAIN proc_instances) \cup (DOMAIN cont_instances)
  /\ ~Exited(r)
  /\ IF r \in DOMAIN proc_instances
     THEN /\ proc_instances' = [proc_instances EXCEPT ![r].exited = TRUE]
          /\ UNCHANGED cont_instances
     ELSE /\ cont_instances' = [cont_instances EXCEPT ![r].exited = TRUE]
          /\ UNCHANGED proc_instances
  /\ up' = up \ {r}
  /\ UNCHANGED <<functions, load_balancer, all_instances, heap, unkillable, now, uuid_calls, running, th, n_invokes, driver, os_environ, sandbox_env, clients, allowed, ttl, stopped,
                 function_code, faas_cgroup, cgroups, temp_dirs, alive>>

NextCrash ==
  \/ \E t \in Workers : StartBegin(t)
  \/ \E t \in Threads : WarmNext(t)
  \/ \E t \in Threads : WarmLoop(t)
  \/ \E t \in Threads : CreateExec(t)
  \/ \E t \in Threads : CreateRegister(t)
  \/ \E t \in Threads : ReapStart(t)
  \/ \E t \in Threads : ReapProcess(t)
  \/ \E t \in Threads : ReapContainer(t)
  \/ \E t \in Threads : ReapScan(t)
  \/ \E t \in Threads : ReapLoop(t)
  \/ \E t \in Threads : ReapStore(t)
  \/ \E t \in Threads : Return(t)
  \/ \E r \in 1..(2 * MaxCreates) : SandboxExits(r)
  \/ \E r \in 1..(2 * MaxCreates) : EnvDown(r)
  \/ \E r \in 1..(2 * MaxCreates) : EnvUp(r)
  \/ Advance

SpecCrash == Init /\ [][NextCrash]_vars

\* C29: when a tick of the reaper has completed, no instance whose sandbox
\* had exited before the tick is tracked any more, neither in all_instances
\* nor in a load-balancer list.
C29_CrashRecovery ==
  (th[Reaper].op = "reap" /\ th[Reaper].pc = "done") =>
     \A r \in 1..(2 * MaxCreates) :
        Exited(r) =>
           /\ r \notin all_instances
           /\ \A fn \in DOMAIN load_balancer : r \notin Range(load_balancer[fn].instances)

(* ------------------------------- pre-warm ----------------------------- *)
\* start() with a registry holding a function of min_instances 2.
InitPrewarm == InitWith({"h", "g"}) /\ driver = "serial"

NextPrewarm ==
  \/ \E t \in Workers : StartBegin(t)
  \/ \E t \in Threads : WarmNext(t)
  \/ \E t \in Threads : WarmLoop(t)
  \/ \E t \in Threads : CreateExec(t)
  \/ \E t \in Threads : CreateRegister(t)
  \/ \E t \in Threads : Return(t)
  \/ \E r \in 1..(2 * MaxCreates) : EnvDown(r)
  \/ \E r \in 1..(2 * MaxCreates) : EnvUp(r)

SpecPrewarm == InitPrewarm /\ [][NextPrewarm]_vars

\* The pre-warm loop of t is back from an attempt that failed.
PrewarmAttemptFailed(t) ==
  /\ th[t].op = "start"
  /\ th[t].pc = "warm_loop"
  /\ th[t].count < th[t].cfg.min_instances
  /\ ~th[t].ok

C30_Step ==
  \A t \in Workers :
    (PrewarmAttemptFailed(t) /\ th'[t] # th[t]) =>
       /\ th'[t].pc = "warm_next"
       /\ th'[t].fns = Tail(th[t].fns)

\* C30: after a failed provisioning attempt the pre-warm of that function
\* makes no further attempt and goes on to the next function of the list.
C30_PrewarmAbort == [][C30_Step]_vars

(* ------------------------ provisioning failure ------------------------ *)
\* load_state.instances of fn, empty where there is no load state.
InstanceList(fn) ==
  IF fn \in DOMAIN load_balancer THEN load_balancer[fn].instances ELSE <<>>

\* executor.create_instance raises in the call made by thread t.
CreateRaises(t) ==
  /\ th[t].pc = "create"
  /\ th'[t] # th[t]
  /\ th'[t].pc # "register"

C31_Step ==
  \A t \in Threads :
    CreateRaises(t) =>
       /\ all_instances' = all_instances
       /\ \A fn \in Range(FnOrder) : InstanceList(fn)' = InstanceList(fn)
       /\ heap' = heap
       /\ th[t].op = "invoke" =>
            /\ th'[t].pc = "done"
            /\ th'[t].code = 500
       /\ th[t].op # "invoke" =>
            /\ th'[t].pc = th[t].ret
            /\ ~th'[t].ok

\* C31: when executor.create_instance raises, _create_function_instance
\* returns None with all_instances and every instance list as they were, and
\* an invoke_function on that path answers 500 with no counter changed.
C31_ProvisioningFailure == [][C31_Step]_vars

\* An invocation of "g" has answered 500 because its sandbox could not be
\* started.
C31_Witness ==
  \E t \in Workers :
    /\ th[t].op = "invoke"
    /\ th[t].pc = "done"
    /\ th[t].code = 500
    /\ th[t].fn = "g"
    /\ InstanceCount("g") = 0
    /\ uuid_calls > 0

(* -------------------------- executor ownership ------------------------ *)
\* The `config` objects that change a function's execution_mode.
ModeData == {{<<"execution_mode", "container">>}, {<<"execution_mode", "process">>}}

\* One function whose execution_mode is updated between invocations and
\* stops, one request at a time.
InitOwner == InitWith({"f"}) /\ driver = "serial"

NextOwner ==
  \/ \E t \in Workers : StartBegin(t)
  \/ \E t \in Threads : WarmNext(t)
  \/ \E t \in Threads : WarmLoop(t)
  \/ \E t \in Workers, config_data \in ModeData : UpdateFunction(t, "f", 0, TRUE, config_data)
  \/ \E t \in Workers : InvokeStart(t, "f")
  \/ \E t \in Threads : InvokeProbe(t)
  \/ \E t \in Threads : CreateExec(t)
  \/ \E t \in Threads : CreateRegister(t)
  \/ \E t \in Threads : InvokeCall(t)
  \/ \E t \in Threads : InvokeReadRequestCount(t)
  \/ \E t \in Threads : InvokeWriteRequestCount(t)
  \/ \E t \in Threads : InvokeReadErrorCount(t)
  \/ \E t \in Threads : InvokeWriteErrorCount(t)
  \/ \E t \in Workers, r \in 1..(2 * MaxCreates) : StopStart(t, r)
  \/ \E t \in Workers : DeleteStart(t, "f")
  \/ \E t \in Threads : DeleteLoop(t)
  \/ \E t \in Threads : StopExec(t)
  \/ \E t \in Threads : StopUntrack(t)
  \/ \E t \in Threads : StopStore(t)
  \/ \E t \in Threads : Return(t)
  \/ \E r \in 1..(2 * MaxCreates) : EnvDown(r)
  \/ \E r \in 1..(2 * MaxCreates) : EnvUp(r)

SpecOwner == InitOwner /\ [][NextOwner]_vars

\* No id is held by both executors, and a tracked instance is held by no
\* executor other than that of its recorded execution_mode.
OneOwner ==
  /\ (DOMAIN proc_instances) \cap (DOMAIN cont_instances) = {}
  /\ \A r \in all_instances :
       /\ r \in DOMAIN proc_instances => heap[r].execution_mode = "process"
       /\ r \in DOMAIN cont_instances => heap[r].execution_mode = "container"

C32_Step ==
  /\ OneOwner'
  /\ \A t \in Threads :
       (/\ th[t].pc = "stop_exec"
        /\ th'[t] # th[t]
        /\ th[t].rid \in all_instances
        /\ ExecutorHas(heap[th[t].rid].execution_mode, th[t].rid)
        /\ th[t].rid \notin unkillable)
       => /\ th'[t].pc = "stop_untrack"
          /\ ~(ExecutorHas(heap[th[t].rid].execution_mode, th[t].rid))'

\* C32: no runtime_id is held by both executors, and a tracked instance is
\* stopped through the executor of the execution_mode recorded when it was
\* created, whatever the function's config says by then.
C32_SingleOwner == [][C32_Step]_vars

\* A process instance of "f" is being stopped after the config of "f" was
\* changed to container mode.
C32_Witness ==
  \E t \in Workers :
    /\ th[t].pc = "stop_untrack"
    /\ heap[th[t].rid].execution_mode = "process"
    /\ GetFunction("f").execution_mode = "container"

(* ----------------------------- runtime ids ---------------------------- *)
\* C33: the RUNTIME_ID handed to the sandbox of an instance is the
\* runtime_id under which the executor and all_instances hold the instance.
C33_RuntimeIdAgreement ==
  \A r \in all_instances :
     /\ r \in DOMAIN proc_instances => proc_instances[r].env_runtime_id = r
     /\ r \in DOMAIN cont_instances => cont_instances[r].env_runtime_id = r

(* ------------------------ shutdown completeness ----------------------- *)
\* C34: when stop() has returned, all_instances is empty, every instance
\* list is empty and neither executor holds a record.
C34_ShutdownComplete ==
  \A t \in Workers :
    (th[t].op = "shutdown" /\ th[t].pc = "done") =>
       /\ all_instances = {}
       /\ \A fn \in DOMAIN load_balancer : load_balancer[fn].instances = <<>>
       /\ DOMAIN proc_instances = {}
       /\ DOMAIN cont_instances = {}

(* ------------------ create racing stop on one function ---------------- *)
\* The orchestrator serving "f" with one instance; requests are handled by
\* concurrent worker threads.
InitLost ==
  /\ now = StartTime
  /\ functions = [n \in {"f"} |-> ConfigOf(n)]
  /\ load_balancer = [n \in {"f"} |-> [NewLoadState EXCEPT !.instances = <<2>>]]
  /\ all_instances = {2}
  /\ heap = [r \in {2} |-> NewInstance("f", ConfigOf("f").execution_mode, PortBase)]
  /\ proc_instances = [r \in {2} |-> ExecutorRecord("f", PortBase, 1)]
  /\ cont_instances = <<>>
  /\ up \in {{}, {2}}
  /\ unkillable = {}
  /\ uuid_calls = 2
  /\ running = TRUE
  /\ th = [t \in Threads |-> IdleThread]
  /\ n_invokes = 0
  /\ driver = "concurrent"
  /\ ttl = WarmInstanceTtl
  /\ stopped = FALSE
  /\ function_code = [n \in DOMAIN functions |-> 1]
  /\ faas_cgroup = FALSE
  /\ cgroups = {}
  /\ temp_dirs = {}
  /\ alive = {}
  /\ InitOther

\* One thread serves DELETE /instances/<id> for the instance there is, the
\* other POST /invoke/f.
NextLost ==
  \/ StopStart("w1", 2)
  \/ \E t \in Threads : StopExec(t)
  \/ \E t \in Threads : StopUntrack(t)
  \/ \E t \in Threads : StopStore(t)
  \/ InvokeStart("w2", "f")
  \/ \E t \in Threads : InvokeProbe(t)
  \/ \E t \in Threads : CreateExec(t)
  \/ \E t \in Threads : CreateRegister(t)
  \/ \E t \in Threads : InvokeCall(t)
  \/ \E t \in Threads : InvokeReadRequestCount(t)
  \/ \E t \in Threads : InvokeWriteRequestCount(t)
  \/ \E t \in Threads : InvokeReadErrorCount(t)
  \/ \E t \in Threads : InvokeWriteErrorCount(t)
  \/ \E t \in Threads : Return(t)

SpecLost == InitLost /\ [][NextLost]_vars

\* No thread is inside _create_function_instance or _stop_function_instance.
TrackingSettled ==
  \A t \in Threads :
    th[t].pc \notin {"create", "register", "stop_exec", "stop_untrack", "stop_store"}

\* C35: once a creation and a stop of another instance of the same function
\* have both completed, the created instance is in all_instances and in the
\* function's instance list.
C35_NoLostUpdate ==
  \A t \in Workers :
    (/\ th[t].op = "invoke"
     /\ th[t].pc \in {"call", "rc_read", "rc_write", "ec_read", "ec_write", "done"}
     /\ th[t].rid > 2
     /\ TrackingSettled)
    => /\ th[t].rid \in all_instances
       /\ th[t].rid \in Range(InstanceList("f"))

(* ------------------------ delete racing invoke ------------------------ *)
\* One thread serves DELETE /functions/g, the other POST /invoke/g.
NextDel ==
  \/ DeleteStart("w1", "g")
  \/ \E t \in Threads : DeleteLoop(t)
  \/ \E t \in Threads : StopExec(t)
  \/ \E t \in Threads : StopUntrack(t)
  \/ \E t \in Threads : StopStore(t)
  \/ InvokeStart("w2", "g")
  \/ \E t \in Threads : InvokeProbe(t)
  \/ \E t \in Threads : InvokeWait(t)
  \/ \E t \in Threads : CreateExec(t)
  \/ \E t \in Threads : CreateRegister(t)
  \/ \E t \in Threads : InvokeCall(t)
  \/ \E t \in Threads : InvokeReadRequestCount(t)
  \/ \E t \in Threads : InvokeWriteRequestCount(t)
  \/ \E t \in Threads : InvokeReadErrorCount(t)
  \/ \E t \in Threads : InvokeWriteErrorCount(t)
  \/ \E t \in Threads : Return(t)

SpecDel == InitRace /\ [][NextDel]_vars

\* Some instance of fn is tracked by the orchestrator or held by an executor.
InstanceRemains(fn) ==
  \/ \E r \in all_instances : heap[r].function_name = fn
  \/ InstanceList(fn) # <<>>
  \/ \E r \in DOMAIN proc_instances : proc_instances[r].function_name = fn
  \/ \E r \in DOMAIN cont_instances : cont_instances[r].function_name = fn

\* C36: when the deletion of a function and an invocation of it that ran at
\* the same time have both completed, no instance of the function is tracked
\* by the orchestrator or held by an executor.
C36_DeleteRacingInvoke ==
  \A t \in Workers, u \in Workers :
    (/\ th[t].op = "delete" /\ th[t].pc = "done" /\ th[t].code = 200
     /\ th[u].op = "invoke" /\ th[u].pc = "done")
    => ~InstanceRemains(th[t].fn)

(* -------------------------- background loops -------------------------- *)
\* The autoscaler and the reaper beside a gateway thread that serves
\* DELETE /instances/<id>, the sandbox of "g" answering or not.
NextLoop ==
  \/ \E r \in 1..(2 * MaxCreates) : StopStart("w1", r)
  \/ \E t \in Threads : StopExec(t)
  \/ \E t \in Threads : StopUntrack(t)
  \/ \E t \in Threads : StopStore(t)
  \/ \E t \in Threads : ScaleStart(t)
  \/ \E t \in Threads : ScaleEval(t)
  \/ \E t \in Threads : ScaleDown(t)
  \/ \E t \in Threads : ScaleMark(t)
  \/ \E t \in Threads : ReapStart(t)
  \/ \E t \in Threads : ReapProcess(t)
  \/ \E t \in Threads : ReapContainer(t)
  \/ \E t \in Threads : ReapScan(t)
  \/ \E t \in Threads : ReapLoop(t)
  \/ \E t \in Threads : ReapStore(t)
  \/ \E t \in Threads : Return(t)
  \/ \E r \in 1..(2 * MaxCreates) : EnvDown(r)
  \/ \E r \in 1..(2 * MaxCreates) : EnvUp(r)

\* A step of the reaper thread: `while self.running` around the tick never
\* ends, so the thread is not starved.
ReaperStep ==
  \/ ReapStart(Reaper)
  \/ ReapProcess(Reaper)
  \/ ReapContainer(Reaper)
  \/ ReapScan(Reaper)
  \/ ReapLoop(Reaper)
  \/ ReapStore(Reaper)
  \/ Return(Reaper)

SpecLoop ==
  InitRace /\ [][NextLoop]_vars /\ WF_vars(ScalerStep) /\ WF_vars(ReaperStep)

\* The tick of background thread t has ended with an exception.
TickRaised(t) == th[t].pc = "done" /\ th[t].code = 500

HostVars == {"RUNTIME_ID", "AWS_SECRET_ACCESS_KEY"}
EnvValues == {1, 2}
HostEnvs ==
  {e \in SUBSET (HostVars \X EnvValues) :
     \A p \in e, q \in e : p[1] = q[1] => p = q}

\* The two hosts on which the same orchestrator runs.
Hosts == {1, 2}

\* ConfigManager.get_runtime_config, lines 217-236, reduced to two of its
\* keys: RUNTIME_ID and LOG_LEVEL.
RuntimeConfig(runtime_id) == {<<"RUNTIME_ID", runtime_id>>, <<"LOG_LEVEL", 1>>}

\* process_executor.py 275-276: env = os.environ.copy(); env.update(runtime_config)
ProcessEnv(environ, runtime_config) ==
  runtime_config \cup {p \in environ : \A q \in runtime_config : q[1] # p[1]}

NoSandbox == [started |-> FALSE, config |-> {}, env |-> {}]

InitEnv ==
  /\ InitOrch(FnNames)
  /\ driver = "serial"
  /\ os_environ \in [Hosts -> HostEnvs]
  /\ sandbox_env = [o \in Hosts |-> NoSandbox]
  /\ clients = <<>>
  /\ allowed = <<>>

\* ProcessExecutor.create_instance, lines 274-309, on host o: the environment
\* is built and handed to subprocess.Popen.
StartSandbox(o, runtime_id) ==
  /\ ~sandbox_env[o].started
  /\ sandbox_env' =
       [sandbox_env EXCEPT ![o] =
          [started |-> TRUE, config |-> RuntimeConfig(runtime_id),
           env |-> ProcessEnv(os_environ[o], RuntimeConfig(runtime_id))]]
  /\ UNCHANGED <<functions, load_balancer, all_instances, heap, proc_instances, cont_instances, up, unkillable, now, uuid_calls, running, th, n_invokes, driver, os_environ, clients, allowed, ttl, stopped,
                 function_code, faas_cgroup, cgroups, temp_dirs, alive>>

NextEnv == \E o \in Hosts, runtime_id \in EnvValues : StartSandbox(o, runtime_id)

SpecEnv == InitEnv /\ [][NextEnv]_vars

\* C38: two sandboxes started with the same runtime_config on hosts that
\* differ only in their own environment variables get the same environment.
C38_EnvIsolation ==
  (/\ sandbox_env[1].started
   /\ sandbox_env[2].started
   /\ sandbox_env[1].config = sandbox_env[2].config)
  => sandbox_env[1].env = sandbox_env[2].env

(* ----------------------------- rate limiter --------------------------- *)
\* The clients of the gateway, and the limit a route is decorated with:
\* at most MaxRequests requests in WindowSeconds seconds.
ClientIds == {"a", "b"}
MaxRequests == 2
WindowSeconds == 2
\* the clock of the rate limiter's specification advances MaxRateTicks
\* times, by one second each
MaxRateTicks == 3

\* One second passes.
RateTick ==
  /\ now < StartTime + MaxRateTicks
  /\ now' = now + 1
  /\ UNCHANGED <<functions, load_balancer, all_instances, heap, proc_instances, cont_instances, up, unkillable, uuid_calls, running, th, n_invokes, driver, os_environ, sandbox_env, clients, allowed, ttl, stopped,
                 function_code, faas_cgroup, cgroups, temp_dirs, alive>>

\* RateLimiter.is_allowed, api_gateway.py 32-62; the call returns True
\* exactly when it appends to `allowed`.
IsAllowed(client_id, max_requests, window_seconds) ==
  /\ IF client_id \notin DOMAIN clients
     THEN /\ clients' = Put(clients, client_id,
                            [requests |-> <<now>>, window_start |-> now])
          /\ allowed' = Append(allowed, <<client_id, now>>)
     ELSE LET client_data == clients[client_id]
              cutoff_time == now - window_seconds
              kept == SelectSeq(client_data.requests, LAMBDA x : x >= cutoff_time)
          IN IF now - client_data.window_start >= window_seconds
             THEN /\ clients' = [clients EXCEPT
                                   ![client_id] = [requests |-> <<now>>, window_start |-> now]]
                  /\ allowed' = Append(allowed, <<client_id, now>>)
             ELSE IF Len(kept) >= max_requests
             THEN /\ clients' = [clients EXCEPT ![client_id].requests = kept]
                  /\ UNCHANGED allowed
             ELSE /\ clients' = [clients EXCEPT ![client_id].requests = Append(kept, now)]
                  /\ allowed' = Append(allowed, <<client_id, now>>)
  /\ UNCHANGED <<functions, load_balancer, all_instances, heap, proc_instances, cont_instances, up, unkillable, now, uuid_calls, running, th, n_invokes, driver, os_environ, sandbox_env, ttl, stopped,
                 function_code, faas_cgroup, cgroups, temp_dirs, alive>>

NextRate ==
  \/ \E client_id \in ClientIds : IsAllowed(client_id, MaxRequests, WindowSeconds)
  \/ RateTick

SpecRate == Init /\ [][NextRate]_vars

\* The calls of client_id that is_allowed granted at a time in [from, from + len).
GrantedIn(client_id, from, len) ==
  {i \in DOMAIN allowed :
     /\ allowed[i][1] = client_id
     /\ from <= allowed[i][2]
     /\ allowed[i][2] < from + len}

\* C39: in no interval of WindowSeconds seconds does is_allowed grant a
\* client more than MaxRequests calls.
C39_RateLimitCap ==
  \A client_id \in ClientIds :
    \A from \in (StartTime - WindowSeconds)..(StartTime + MaxRateTicks) :
       Cardinality(GrantedIn(client_id, from, WindowSeconds)) <= MaxRequests

(* --------------------------- untracked sandboxes ---------------------- *)
\* The runtime ids for which an executor holds an instance record.
Held == (DOMAIN proc_instances) \cup (DOMAIN cont_instances)

\* No operation is under way: every thread is idle or has its operation's
\* result in hand.
Settled == \A t \in Threads : th[t].op = "idle" \/ th[t].pc = "done"

\* C40: between operations that each ran to completion, every instance an
\* executor holds is in the orchestrator's all_instances index.
C40_NoUntrackedSandbox == Settled => Held \subseteq all_instances

\* A stop has just removed one instance while an executor still holds another.
C40_Witness ==
  /\ \E t \in Workers :
        /\ th[t].op = "stop" /\ th[t].pc = "done" /\ th[t].code = 200
        /\ th[t].rid \notin all_instances
  /\ Held # {}
====
